---------------------------- MODULE Spec2Model ----------------------------
(***************************************************************************)
(* A model of the analytics operations of the Lightning Network (LND) node *)
(* in src/credentials/LndApi.credentials.ts: the time range, the paginated *)
(* collector of forwarding events, the forwarding summary, the dust        *)
(* analysis, the channel balance monitor, the HTLC monitor, the fee        *)
(* suggestion, the peer scoring, the rebalance suggestions and the dust    *)
(* UTXO detection, each as it runs for one input item inside               *)
(* LightningNetwork.execute (the try block and its catch clause); and of   *)
(* execute's loop over all its input items, as the node in                 *)
(* src/nodes/LightningNetwork/LightningNetwork.node.ts runs it.            *)
(*                                                                         *)
(* Conventions.  A JSON field that may be missing is a sequence of length  *)
(* at most one: <<>> is the missing field, <<n>> the field holding the     *)
(* decimal string of n.  A channel id is a string, "" standing for a       *)
(* missing or empty one (both are falsy in `x || 'unknown'`).  Amounts are *)
(* integers well below 2^53, where sums of doubles are exact.              *)
(***************************************************************************)
EXTENDS Integers, Sequences, FiniteSets

VARIABLES
    op,             \* the operation parameter of the item being processed
    pc,             \* where the processing of the item stands
    params,         \* the node parameters the operation reads
    chans,          \* channelsResp.channels || [] of the operation
    allEvents,      \* getAllForwardingEvents: allEvents
    indexOffset,    \* getAllForwardingEvents: indexOffset
    hasMore,        \* getAllForwardingEvents: hasMore
    sent,           \* the index_offset of every POST /v1/switch issued so far
    recv,           \* every response to POST /v1/switch received so far
    suggestions,    \* autoFeeSuggestion: suggestions
    applied,        \* every POST /v1/chanpolicy issued so far, with its outcome
    clock,          \* Math.floor(Date.now() / 1000) as the item is processed
    range,          \* the {startTime, endTime} the operation resolved, if any
    utxos,          \* detectDustUtxos: allUtxos
    leases,         \* every POST /v2/wallet/utxos/lease issued so far
    frozenResults,  \* detectDustUtxos: frozenResults
    items,          \* execute: items.length, the number of input items
    itemIndex,      \* execute: i, the place of the item at hand (from 1)
    continueOnFail, \* this.continueOnFail(), the node's on-error setting
    returnData,     \* execute: returnData
    thrown          \* execute rejected (the catch clause rethrew)

collectorVars == <<allEvents, indexOffset, hasMore, sent, recv>>
feeVars == <<suggestions, applied>>
inputVars == <<op, params, clock, items, itemIndex, continueOnFail>>
walletVars == <<utxos, leases, frozenResults>>
vars == <<op, pc, params, chans, allEvents, indexOffset, hasMore, sent, recv,
          suggestions, applied, clock, range, utxos, leases, frozenResults,
          items, itemIndex, continueOnFail, returnData, thrown>>

(***************************************************************************)
(* Bounds of the model.                                                    *)
(***************************************************************************)
\* getAllForwardingEvents: pageSize.  The source sets 10000; the model
\* scales it down so that full and short pages are both enumerable.
pageSize == 2
\* The most POST /v1/switch requests one collection issues in the model.
MaxRequests == 3
\* The most channels GET /v1/channels returns in the model.
MaxChans == 2
\* The most forwarding events handed to the forwarding summary directly.
MaxEvents == 3

(***************************************************************************)
(* Helpers shared by the operations.                                       *)
(***************************************************************************)
SeqsUpTo(S, n) == UNION {[1..k -> S] : k \in 0..n}

\* array.reduce((sum, x) => sum + x, 0), summed by halves to keep the
\* evaluation shallow on long arrays.
RECURSIVE SumSeq(_)
SumSeq(s) ==
    IF s = <<>> THEN 0
    ELSE IF Len(s) = 1 THEN s[1]
    ELSE SumSeq(SubSeq(s, 1, Len(s) \div 2))
            + SumSeq(SubSeq(s, Len(s) \div 2 + 1, Len(s)))

\* parseInt(x || '0'): a missing (or empty) field reads as 0, a decimal
\* string as its value.
ParseIntOr0(field) == IF field = <<>> THEN 0 ELSE field[1]

\* x || 'unknown' on a channel id.
OrUnknown(id) == IF id = "" THEN "unknown" ELSE id

\* Math.round(a / b * 100) truncated instead of rounded: a slip the
\* rounding claim must notice.
FloorPctChoices(a, b) == {(100 * a) \div b}

\* Math.round((a / b) * 100) for a >= 0, b > 0.  Math.round rounds half up,
\* but its argument is a double: when 100a/b lies exactly half way between
\* two integers the quotient's rounding error decides (1/8 gives 12.5 and
\* 13, 29/200 gives 14.499999999999998 and 14), so there either neighbour
\* is a possible result.  Elsewhere the result is the nearest integer.
RoundPctChoices(a, b) ==
    LET lo == (100 * a) \div b
        rest == (200 * a) % (2 * b)
    IN  IF rest < b THEN {lo}
        ELSE IF rest > b THEN {lo + 1}
        ELSE {lo, lo + 1}

\* The sequences whose k-th element is drawn from the k-th set.
RECURSIVE SeqProduct(_)
SeqProduct(sets) ==
    IF sets = <<>>
       THEN {<<>>}
       ELSE {Append(front, x) :
                front \in SeqProduct(SubSeq(sets, 1, Len(sets) - 1)),
                x \in sets[Len(sets)]}

\* constructExecutionMetaData(returnJsonArray({error: errorMessage}), item i)
ErrorEntry(msg) == [item |-> itemIndex, json |-> [error |-> msg]]
IsError(entry) == "error" \in DOMAIN entry.json
\* constructExecutionMetaData(returnJsonArray(responseData), item i)
ReportEntry(report) == [item |-> itemIndex, json |-> report]

\* The catch clause of execute for an only item: with continueOnFail() one
\* error entry is pushed and the loop, continued, ends; otherwise the error
\* is rethrown.
Catch(msg) ==
    /\ pc' = "done"
    /\ IF continueOnFail
          THEN /\ returnData' = Append(returnData, ErrorEntry(msg))
               /\ thrown' = FALSE
          ELSE /\ returnData' = returnData
               /\ thrown' = TRUE


(***************************************************************************)
(* routing / forwardingSummary: the aggregation by channel.                *)
(*                                                                         *)
(* chanStats is a JavaScript object keyed by channel id; the model keeps   *)
(* it as the sequence Object.values(chanStats) yields, which for keys that *)
(* are not array indices (LND's channel ids are 64-bit decimals far above  *)
(* 2^32, and 'unknown') is the order in which the keys were first set.     *)
(***************************************************************************)
ZeroStats(id) ==
    [chan_id |-> id, forwards_in |-> 0, forwards_out |-> 0,
     fee_earned_msat |-> 0, amount_routed_in_msat |-> 0,
     amount_routed_out_msat |-> 0]

HasKey(stats, id) == \E k \in 1..Len(stats) : stats[k].chan_id = id

KeyIndex(stats, id) == CHOOSE k \in 1..Len(stats) : stats[k].chan_id = id

\* A slip the conservation of fees must notice: the guard
\* `if (!chanStats[x])` forgotten, so an entry is reset whenever its
\* channel is met again.
EnsureKeyUnguarded(stats, id) ==
    IF HasKey(stats, id)
       THEN [stats EXCEPT ![KeyIndex(stats, id)] = ZeroStats(id)]
       ELSE Append(stats, ZeroStats(id))

\* if (!chanStats[id]) chanStats[id] = {chan_id: id, 0, 0, 0, 0, 0}
EnsureKey(stats, id) ==
    IF HasKey(stats, id) THEN stats ELSE Append(stats, ZeroStats(id))

\* A slip the independence of the order must notice: the fee assigned
\* (`=`) rather than added (`+=`), so that a channel keeps the fee of the
\* last event that left through it.
AccumulateEventLastFee(stats, e) ==
    LET inChan == OrUnknown(e.chan_id_in)
        outChan == OrUnknown(e.chan_id_out)
        feeMsat == ParseIntOr0(e.fee_msat)
        amtIn == ParseIntOr0(e.amt_in_msat)
        amtOut == ParseIntOr0(e.amt_out_msat)
        s1 == EnsureKey(EnsureKey(stats, inChan), outChan)
        kin == KeyIndex(s1, inChan)
        s2 == [s1 EXCEPT ![kin].forwards_in = @ + 1,
                         ![kin].amount_routed_in_msat = @ + amtIn]
        kout == KeyIndex(s2, outChan)
    IN  [s2 EXCEPT ![kout].forwards_out = @ + 1,
                   ![kout].fee_earned_msat = feeMsat,
                   ![kout].amount_routed_out_msat = @ + amtOut]

\* The body of `for (const e of events)`.
AccumulateEvent(stats, e) ==
    LET inChan == OrUnknown(e.chan_id_in)
        outChan == OrUnknown(e.chan_id_out)
        feeMsat == ParseIntOr0(e.fee_msat)
        amtIn == ParseIntOr0(e.amt_in_msat)
        amtOut == ParseIntOr0(e.amt_out_msat)
        s1 == EnsureKey(EnsureKey(stats, inChan), outChan)
        kin == KeyIndex(s1, inChan)
        s2 == [s1 EXCEPT ![kin].forwards_in = @ + 1,
                         ![kin].amount_routed_in_msat = @ + amtIn]
        kout == KeyIndex(s2, outChan)
    IN  [s2 EXCEPT ![kout].forwards_out = @ + 1,
                   ![kout].fee_earned_msat = @ + feeMsat,
                   ![kout].amount_routed_out_msat = @ + amtOut]

\* A slip the empty report must notice: chanStats created with the
\* 'unknown' entry in it rather than as {}.
RECURSIVE ChanStatsSeeded(_)
ChanStatsSeeded(events) ==
    IF events = <<>>
       THEN <<ZeroStats("unknown")>>
       ELSE AccumulateEvent(ChanStatsSeeded(SubSeq(events, 1, Len(events) - 1)),
                            events[Len(events)])

\* const chanStats = {}; for (const e of events) { ... }
RECURSIVE ChanStats(_)
ChanStats(events) ==
    IF events = <<>>
       THEN <<>>
       ELSE AccumulateEvent(ChanStats(SubSeq(events, 1, Len(events) - 1)),
                            events[Len(events)])

\* .map(s => ({...s, fee_earned_sat, total_forwards}))
SummaryEntry(s) ==
    [chan_id |-> s.chan_id, forwards_in |-> s.forwards_in,
     forwards_out |-> s.forwards_out, fee_earned_msat |-> s.fee_earned_msat,
     amount_routed_in_msat |-> s.amount_routed_in_msat,
     amount_routed_out_msat |-> s.amount_routed_out_msat,
     fee_earned_sat |-> s.fee_earned_msat \div 1000,
     total_forwards |-> s.forwards_in + s.forwards_out]

\* A slip the order of ties must notice: a sort that is not stable and puts
\* x in front of the entries that earned as much.
InsertByFeeDescBeforeEqual(sorted, x) ==
    LET pos == Cardinality({k \in 1..Len(sorted) :
                               sorted[k].fee_earned_msat > x.fee_earned_msat})
    IN  SubSeq(sorted, 1, pos) \o <<x>> \o SubSeq(sorted, pos + 1, Len(sorted))

\* One step of a stable sort by (a, b) => b.fee_earned_msat -
\* a.fee_earned_msat: x goes behind every entry that earned at least as much.
InsertByFeeDesc(sorted, x) ==
    LET pos == Cardinality({k \in 1..Len(sorted) :
                               sorted[k].fee_earned_msat >= x.fee_earned_msat})
    IN  SubSeq(sorted, 1, pos) \o <<x>> \o SubSeq(sorted, pos + 1, Len(sorted))

RECURSIVE SortByFeeDesc(_)
SortByFeeDesc(entries) ==
    IF entries = <<>>
       THEN <<>>
       ELSE InsertByFeeDesc(SortByFeeDesc(SubSeq(entries, 1, Len(entries) - 1)),
                            entries[Len(entries)])

ChannelSummary(events) ==
    LET stats == ChanStats(events)
    IN  SortByFeeDesc([k \in 1..Len(stats) |-> SummaryEntry(stats[k])])

\* responseData of forwardingSummary (start_time and end_time, which echo
\* the time range, are left out).
ForwardingSummaryReport(events) ==
    LET summary == ChannelSummary(events)
        totalFee == SumSeq([k \in 1..Len(summary) |-> summary[k].fee_earned_msat])
    IN  [total_events |-> Len(events),
         total_fee_earned_msat |-> totalFee,
         total_fee_earned_sat |-> totalFee \div 1000,
         unique_channels |-> Len(summary),
         channel_summary |-> summary]

(***************************************************************************)
(* getAllForwardingEvents, called by routing / forwardingSummary.          *)
(***************************************************************************)
Event(in, out, fee, amtIn, amtOut) ==
    [chan_id_in |-> in, chan_id_out |-> out, fee_msat |-> fee,
     amt_in_msat |-> amtIn, amt_out_msat |-> amtOut]

\* The events LND's pages are made of in the collector's specification.
CollectEvents ==
    {Event("chanA", "chanB", <<1000>>, <<5000>>, <<4000>>),
     Event("chanB", "", <<>>, <<700>>, <<700>>)}

\* resp.forwarding_events: missing, or a page of at most num_max_events
\* events.
PageFields == {<<>>} \cup {<<p>> : p \in SeqsUpTo(CollectEvents, pageSize)}

\* resp.last_offset_index: missing, or a number.
OffsetFields == {<<>>, <<5>>, <<9>>}

\* resp.forwarding_events || []
EventsOf(resp) ==
    IF resp.forwarding_events = <<>> THEN <<>> ELSE resp.forwarding_events[1]

\* A slip the offset claims must notice: the next offset computed from the
\* page size instead of read from the response.
NextOffsetByPageSize(offset, resp) == offset + pageSize

\* A slip the missing offset must notice: the previous offset kept when
\* the response carries none.
NextOffsetOrKeep(offset, resp) ==
    IF resp.last_offset_index = <<>> THEN offset ELSE resp.last_offset_index[1]

\* A slip the termination must notice: the offset never advanced.
NextOffsetKept(offset, resp) == offset

\* indexOffset = parseInt(resp.last_offset_index || '0')
NextOffset(offset, resp) == ParseIntOr0(resp.last_offset_index)

\* A slip the stop rule must notice: a page of exactly pageSize events
\* taken for the last one.
LastPageInclusive(events) == Len(events) <= pageSize

\* events.length < pageSize
LastPage(events) == Len(events) < pageSize

\* A slip the concatenation claim must notice: the new page put in front.
ConcatInFront(all, events) == events \o all

\* allEvents = allEvents.concat(events)
Concat(all, events) == all \o events

CollectInit ==
    /\ op = "forwardingSummary"
    /\ pc = "loop"
    /\ params = [timeRange |-> "24h"]
    /\ chans = <<>>
    /\ allEvents = <<>>
    /\ indexOffset = 0
    /\ hasMore = TRUE
    /\ sent = <<>>
    /\ recv = <<>>
    /\ suggestions = <<>>
    /\ applied = <<>>
    /\ clock = 0
    /\ range = <<>>
    /\ utxos = <<>>
    /\ leases = <<>>
    /\ frozenResults = <<>>
    /\ items = 1
    /\ itemIndex = 1
    /\ continueOnFail \in BOOLEAN
    /\ returnData = <<>>
    /\ thrown = FALSE

\* A slip the sequencing claim must notice: the request not awaited, so
\* that the loop issues the next one while the last is still in flight.
SendPageRequestNotAwaited ==
    /\ pc \in {"loop", "await"}
    /\ hasMore
    /\ Len(sent) < MaxRequests
    /\ sent' = Append(sent, indexOffset)
    /\ pc' = "await"
    /\ UNCHANGED <<inputVars, range, walletVars,
                   chans, allEvents, indexOffset, hasMore, recv,
                   feeVars, returnData, thrown>>

\* while (hasMore) { lndRequest(POST /v1/switch, {index_offset: indexOffset})
SendPageRequest ==
    /\ pc = "loop"
    /\ hasMore
    /\ Len(sent) < MaxRequests
    /\ sent' = Append(sent, indexOffset)
    /\ pc' = "await"
    /\ UNCHANGED <<inputVars, range, walletVars,
                   chans, allEvents, indexOffset, hasMore, recv,
                   feeVars, returnData, thrown>>

\* The awaited request resolves with resp: the rest of the loop body.
LoopBody(resp) ==
    LET events == EventsOf(resp)
    IN  /\ pc = "await"
        /\ recv' = Append(recv, resp)
        /\ allEvents' = Concat(allEvents, events)
        /\ IF LastPage(events)
              THEN /\ hasMore' = FALSE
                   /\ indexOffset' = indexOffset
              ELSE /\ hasMore' = hasMore
                   /\ indexOffset' = NextOffset(indexOffset, resp)
        /\ pc' = "loop"
        /\ UNCHANGED <<inputVars, range, walletVars,
                       chans, sent, feeVars, returnData, thrown>>

\* The awaited request resolves, with any response.
ReceivePage ==
    \E fe \in PageFields, off \in OffsetFields :
        LoopBody([forwarding_events |-> fe, last_offset_index |-> off])

\* A slip the failure claim must notice: the rejection swallowed inside the
\* loop, which then ends and returns the pages collected so far.
PageFetchSwallowed ==
    /\ pc = "await"
    /\ hasMore' = FALSE
    /\ pc' = "loop"
    /\ UNCHANGED <<inputVars, range, walletVars,
                   chans, allEvents, indexOffset, sent, recv,
                   feeVars, returnData, thrown>>

\* The awaited request rejects: getAllForwardingEvents rejects with the same
\* error, which execute's catch clause handles.
PageFetchFails ==
    /\ pc = "await"
    /\ Catch("Connection error to LND")
    /\ UNCHANGED <<inputVars, range, walletVars,
                   chans, collectorVars, feeVars>>

\* The loop has ended: return allEvents, and forwardingSummary builds its
\* report from them and pushes it on returnData.
ForwardingSummary ==
    /\ pc = "loop"
    /\ ~hasMore
    /\ returnData' = Append(returnData,
                            ReportEntry(ForwardingSummaryReport(allEvents)))
    /\ pc' = "done"
    /\ UNCHANGED <<inputVars, range, walletVars,
                   chans, collectorVars, feeVars, thrown>>

CollectNext ==
    \/ SendPageRequest
    \/ ReceivePage
    \/ PageFetchFails
    \/ ForwardingSummary

SpecCollect == CollectInit /\ [][CollectNext]_vars

(***************************************************************************)
(* The forwarding summary as a function of the collected events: the       *)
(* collection has returned an arbitrary event sequence.                    *)
(***************************************************************************)
SummaryEvents ==
    {Event("chanA", "chanB", <<1000>>, <<5000>>, <<4000>>),
     Event("chanB", "chanA", <<1500>>, <<9000>>, <<7500>>),
     Event("chanA", "", <<700>>, <<3000>>, <<2300>>),
     Event("", "chanB", <<>>, <<>>, <<>>),
     Event("chanA", "chanA", <<300>>, <<2000>>, <<1700>>),
     Event("", "", <<1000>>, <<5000>>, <<4000>>)}

SummaryInit ==
    /\ op = "forwardingSummary"
    /\ pc = "loop"
    /\ params = [timeRange |-> "24h"]
    /\ chans = <<>>
    /\ allEvents \in SeqsUpTo(SummaryEvents, MaxEvents)
    /\ indexOffset = 0
    /\ hasMore = FALSE
    /\ sent = <<>>
    /\ recv = <<>>
    /\ suggestions = <<>>
    /\ applied = <<>>
    /\ clock = 0
    /\ range = <<>>
    /\ utxos = <<>>
    /\ leases = <<>>
    /\ frozenResults = <<>>
    /\ items = 1
    /\ itemIndex = 1
    /\ continueOnFail \in BOOLEAN
    /\ returnData = <<>>
    /\ thrown = FALSE

SummaryNext == ForwardingSummary

SpecSummary == SummaryInit /\ [][SummaryNext]_vars


(***************************************************************************)
(* GET /v1/channels, as read by the channel operations.  A channel carries *)
(* the fields the modelled operations compute with; remote_pubkey and      *)
(* remote_balance, which are only copied to the output, are left out.      *)
(***************************************************************************)
Channel(id, point, cap, local, htlcs) ==
    [chan_id |-> id, channel_point |-> point, capacity |-> cap,
     local_balance |-> local, active |-> TRUE, pending_htlcs |-> htlcs]

\* channelsResp.channels: missing, or a list of at most MaxChans channels.
ChannelsFields(S) == {<<>>} \cup {<<l>> : l \in SeqsUpTo(S, MaxChans)}

\* channelsResp.channels || []
ChannelsOf(field) == IF field = <<>> THEN <<>> ELSE field[1]

\* const ratio = cap > 0 ? Math.round((local / cap) * 100) : 0
\* (balanceMonitor; the same line stands in listChannels, autoFeeSuggestion
\* and suggestRebalances)
LocalRatioChoices(c) ==
    LET cap == ParseIntOr0(c.capacity)
        local == ParseIntOr0(c.local_balance)
    IN  IF cap > 0 THEN RoundPctChoices(local, cap) ELSE {0}

(***************************************************************************)
(* channel / balanceMonitor                                                *)
(***************************************************************************)
\* A slip the boundary claims must notice: the comparisons made inclusive.
BalanceStatusInclusive(ratio, threshold) ==
    IF ratio <= threshold THEN "depleted_local"
    ELSE IF ratio >= 100 - threshold THEN "depleted_remote"
    ELSE "balanced"

\* A slip the classification claim must notice: the two tests in the other
\* order.
BalanceStatusRemoteFirst(ratio, threshold) ==
    IF ratio > 100 - threshold THEN "depleted_remote"
    ELSE IF ratio < threshold THEN "depleted_local"
    ELSE "balanced"

\* let status = 'balanced'; if (ratio < threshold) ...; else if (ratio >
\* (100 - threshold)) ...
BalanceStatus(ratio, threshold) ==
    IF ratio < threshold THEN "depleted_local"
    ELSE IF ratio > 100 - threshold THEN "depleted_remote"
    ELSE "balanced"

\* The object chans.map returns for channel c, given the rounded ratio.
BalanceEntry(c, ratio, threshold) ==
    LET status == BalanceStatus(ratio, threshold)
    IN  [chan_id |-> c.chan_id,
         channel_point |-> c.channel_point,
         capacity_sat |-> ParseIntOr0(c.capacity),
         local_balance_sat |-> ParseIntOr0(c.local_balance),
         local_ratio_pct |-> ratio,
         status |-> status,
         active |-> c.active,
         needs_rebalance |-> status # "balanced"]

\* The possible values of `analyzed`.
AnalyzedChoices(list, threshold) ==
    SeqProduct([k \in 1..Len(list) |->
                   {BalanceEntry(list[k], ratio, threshold) :
                       ratio \in LocalRatioChoices(list[k])}])

NeedsRebalance(entry) == entry.needs_rebalance

\* responseData of balanceMonitor.
BalanceReport(analyzed, threshold) ==
    LET needsAttention == SelectSeq(analyzed, NeedsRebalance)
    IN  [total_channels |-> Len(analyzed),
         balanced_channels |-> Len(analyzed) - Len(needsAttention),
         imbalanced_channels |-> Len(needsAttention),
         threshold_pct |-> threshold,
         channels |-> analyzed,
         alerts |-> needsAttention]

\* The channels of the balance monitor's specification: capacity and local
\* balance missing, zero, equal, out of order, and at and around the 20%,
\* 40%, 60% and 80% marks.
BalanceChannels ==
    {Channel("chanA", "txA:0", cl[1], cl[2], <<>>) :
        cl \in {<< <<>>, <<>> >>,
                << <<0>>, <<5>> >>,
                << <<1000000>>, <<>> >>,
                << <<1000000>>, <<194999>> >>,
                << <<1000000>>, <<195000>> >>,
                << <<1000000>>, <<199999>> >>,
                << <<1000000>>, <<200000>> >>,
                << <<1000000>>, <<800000>> >>,
                << <<1000000>>, <<805000>> >>,
                << <<200>>, <<29>> >>,
                << <<5>>, <<2>> >>,
                << <<5>>, <<3>> >>,
                << <<8>>, <<8>> >>,
                << <<8>>, <<9>> >>}}

\* The values of the imbalanceThreshold parameter (default 20).
ImbalanceThresholds == {0, 20, 50, 60, 100}

BalanceInit ==
    /\ op = "balanceMonitor"
    /\ pc = "start"
    /\ params \in [imbalanceThreshold : ImbalanceThresholds]
    /\ chans = <<>>
    /\ allEvents = <<>>
    /\ indexOffset = 0
    /\ hasMore = FALSE
    /\ sent = <<>>
    /\ recv = <<>>
    /\ suggestions = <<>>
    /\ applied = <<>>
    /\ clock = 0
    /\ range = <<>>
    /\ utxos = <<>>
    /\ leases = <<>>
    /\ frozenResults = <<>>
    /\ items = 1
    /\ itemIndex = 1
    /\ continueOnFail \in BOOLEAN
    /\ returnData = <<>>
    /\ thrown = FALSE

\* GET /v1/channels resolves and the report is built and pushed.
BalanceMonitor ==
    /\ pc = "start"
    /\ op = "balanceMonitor"
    /\ \E field \in ChannelsFields(BalanceChannels) :
          /\ chans' = ChannelsOf(field)
          /\ \E analyzed \in AnalyzedChoices(ChannelsOf(field),
                                              params.imbalanceThreshold) :
                returnData' =
                    Append(returnData,
                           ReportEntry(BalanceReport(analyzed,
                                                     params.imbalanceThreshold)))
    /\ pc' = "done"
    /\ UNCHANGED <<inputVars, range, walletVars,
                   collectorVars, feeVars, thrown>>

\* GET /v1/channels rejects.
ChannelsFetchFails ==
    /\ pc = "start"
    /\ Catch("Connection error to LND")
    /\ UNCHANGED <<inputVars, range, walletVars,
                   chans, collectorVars, feeVars>>

BalanceNext ==
    \/ BalanceMonitor
    \/ ChannelsFetchFails

SpecBalance == BalanceInit /\ [][BalanceNext]_vars


(***************************************************************************)
(* channel / htlcMonitor                                                   *)
(***************************************************************************)
\* const maxHtlcPerSpec = 483
maxHtlcPerSpec == 483

\* A pending HTLC: of its fields only the amount is computed with (incoming,
\* hash_lock and expiration_height are copied to the output).
Htlc(amount) == [amount |-> amount]

\* parseInt(h.amount || '0') <= dustThreshold
IsDustHtlc(h, dustThreshold) == ParseIntOr0(h.amount) <= dustThreshold

\* pendingHtlcs.filter(h => parseInt(h.amount || '0') <= dustThreshold)
DustHtlcs(htlcs, dustThreshold) ==
    LET Test(h) == IsDustHtlc(h, dustThreshold)
    IN  SelectSeq(htlcs, Test)

\* The precedence a reader expects from the order of the three tests, and
\* a slip the precedence claim must notice: the first test that matches
\* wins (critical, then warning, then dust attack).
RiskLevelFirstMatch(numPending, numDust, htlcWarnThreshold) ==
    IF 10 * numPending >= 9 * maxHtlcPerSpec THEN "critical"
    ELSE IF numPending >= htlcWarnThreshold THEN "warning"
    ELSE IF 2 * numDust > numPending /\ numPending > 10
       THEN "dust_attack_suspected"
    ELSE "normal"

\* let riskLevel = 'normal';
\* if (numPending >= htlcWarnThreshold) riskLevel = 'warning';
\* if (numPending >= maxHtlcPerSpec * 0.9) riskLevel = 'critical';
\* if (dustHtlcs.length > numPending * 0.5 && numPending > 10)
\*     riskLevel = 'dust_attack_suspected';
\* Three independent ifs: each one that holds overwrites the level.
RiskLevel(numPending, numDust, htlcWarnThreshold) ==
    LET level0 == "normal"
        level1 == IF numPending >= htlcWarnThreshold THEN "warning" ELSE level0
        level2 == IF 10 * numPending >= 9 * maxHtlcPerSpec
                     THEN "critical" ELSE level1
        level3 == IF 2 * numDust > numPending /\ numPending > 10
                     THEN "dust_attack_suspected" ELSE level2
    IN  level3

\* The object chans.map returns for channel c, given the two rounded
\* percentages.
HtlcEntry(c, utilPct, dustPct, htlcWarnThreshold, dustThreshold) ==
    LET pendingHtlcs == c.pending_htlcs
        numPending == Len(pendingHtlcs)
        dustHtlcs == DustHtlcs(pendingHtlcs, dustThreshold)
    IN  [chan_id |-> c.chan_id,
         channel_point |-> c.channel_point,
         capacity_sat |-> ParseIntOr0(c.capacity),
         pending_htlc_count |-> numPending,
         max_htlc_per_spec |-> maxHtlcPerSpec,
         htlc_utilization_pct |-> utilPct,
         dust_htlc_count |-> Len(dustHtlcs),
         dust_htlc_pct |-> dustPct,
         dust_amount_locked_sat |->
             SumSeq([k \in 1..Len(dustHtlcs) |-> ParseIntOr0(dustHtlcs[k].amount)]),
         risk_level |-> RiskLevel(numPending, Len(dustHtlcs), htlcWarnThreshold),
         active |-> c.active,
         pending_htlcs |->
             [k \in 1..numPending |->
                 [amount_sat |-> ParseIntOr0(pendingHtlcs[k].amount),
                  is_dust |-> IsDustHtlc(pendingHtlcs[k], dustThreshold)]]]

HtlcEntryChoices(c, htlcWarnThreshold, dustThreshold) ==
    LET numPending == Len(c.pending_htlcs)
        numDust == Len(DustHtlcs(c.pending_htlcs, dustThreshold))
    IN  {HtlcEntry(c, utilPct, dustPct, htlcWarnThreshold, dustThreshold) :
            utilPct \in RoundPctChoices(numPending, maxHtlcPerSpec),
            dustPct \in IF numPending > 0
                           THEN RoundPctChoices(numDust, numPending)
                           ELSE {0}}

NotNormal(entry) == entry.risk_level # "normal"
DustSuspected(entry) == entry.risk_level = "dust_attack_suspected"

\* The alert with the two tests in the other order: any channel at risk
\* gives the count message, whether or not a dust attack is suspected.
HtlcAlertAtRiskFirst(numAtRisk, numDustAttack) ==
    IF numAtRisk > 0
       THEN [text |-> "N channel(s) have high HTLC count", n |-> numAtRisk]
    ELSE IF numDustAttack > 0
       THEN [text |-> "DUST ATTACK SUSPECTED on N channel(s)!",
             n |-> numDustAttack]
    ELSE [text |-> "All channels healthy", n |-> 0]

\* alert: dustAttackSuspected.length > 0
\*     ? `DUST ATTACK SUSPECTED on ${dustAttackSuspected.length} channel(s)!`
\*     : atRisk.length > 0
\*     ? `${atRisk.length} channel(s) have high HTLC count`
\*     : 'All channels healthy'
\* The alert is a template string; the model keeps its text and the number
\* put into it.
HtlcAlert(numAtRisk, numDustAttack) ==
    IF numDustAttack > 0
       THEN [text |-> "DUST ATTACK SUSPECTED on N channel(s)!",
             n |-> numDustAttack]
    ELSE IF numAtRisk > 0
       THEN [text |-> "N channel(s) have high HTLC count", n |-> numAtRisk]
    ELSE [text |-> "All channels healthy", n |-> 0]

\* responseData of htlcMonitor.
HtlcReport(analyzed, htlcWarnThreshold, dustThreshold) ==
    LET atRisk == SelectSeq(analyzed, NotNormal)
        dustAttackSuspected == SelectSeq(analyzed, DustSuspected)
    IN  [total_channels |-> Len(analyzed),
         total_pending_htlcs |->
             SumSeq([k \in 1..Len(analyzed) |-> analyzed[k].pending_htlc_count]),
         total_dust_htlcs |->
             SumSeq([k \in 1..Len(analyzed) |-> analyzed[k].dust_htlc_count]),
         dust_threshold_sat |-> dustThreshold,
         htlc_warning_threshold |-> htlcWarnThreshold,
         channels_at_risk |-> Len(atRisk),
         dust_attack_suspected |-> Len(dustAttackSuspected),
         alert |-> HtlcAlert(Len(atRisk), Len(dustAttackSuspected)),
         channels |-> analyzed,
         alerts |-> atRisk]

\* A list of numDust dust HTLCs (amounts missing and exactly at the 546 sat
\* threshold in turn) followed by numOther HTLCs just above it.
HtlcList(numDust, numOther) ==
    [k \in 1..(numDust + numOther) |->
        IF k > numDust THEN Htlc(<<547>>)
        ELSE IF k % 2 = 0 THEN Htlc(<<>>)
        ELSE Htlc(<<546>>)]

\* The pending HTLC counts of the model: around the literal 10, around
\* 483 * 0.9 = 434.7, and none.
PendingCounts == {10, 11, 12, 434, 435}

\* The channels of the HTLC monitor's specification: for each count, no
\* dust, exactly half dust (rounded down), and just over half.
HtlcChannels ==
    {Channel("chanA", "txA:0", <<1000000>>, <<500000>>, <<>>)}
    \cup UNION {{Channel("chanA", "txA:0", <<1000000>>, <<500000>>,
                         HtlcList(d, n - d)) :
                    d \in {0, n \div 2, n \div 2 + 1}} : n \in PendingCounts}

HtlcInit ==
    /\ op = "htlcMonitor"
    /\ pc = "start"
    /\ params \in [htlcWarningThreshold : {11, 200, 450},
                   dustThresholdSat : {546}]
    /\ chans = <<>>
    /\ allEvents = <<>>
    /\ indexOffset = 0
    /\ hasMore = FALSE
    /\ sent = <<>>
    /\ recv = <<>>
    /\ suggestions = <<>>
    /\ applied = <<>>
    /\ clock = 0
    /\ range = <<>>
    /\ utxos = <<>>
    /\ leases = <<>>
    /\ frozenResults = <<>>
    /\ items = 1
    /\ itemIndex = 1
    /\ continueOnFail \in BOOLEAN
    /\ returnData = <<>>
    /\ thrown = FALSE

\* GET /v1/channels resolves and the report is built and pushed.
HtlcMonitor ==
    /\ pc = "start"
    /\ op = "htlcMonitor"
    /\ \E field \in ChannelsFields(HtlcChannels) :
          /\ chans' = ChannelsOf(field)
          /\ \E analyzed \in
                SeqProduct([k \in 1..Len(ChannelsOf(field)) |->
                               HtlcEntryChoices(ChannelsOf(field)[k],
                                                params.htlcWarningThreshold,
                                                params.dustThresholdSat)]) :
                returnData' =
                    Append(returnData,
                           ReportEntry(HtlcReport(analyzed,
                                                  params.htlcWarningThreshold,
                                                  params.dustThresholdSat)))
    /\ pc' = "done"
    /\ UNCHANGED <<inputVars, range, walletVars,
                   collectorVars, feeVars, thrown>>

HtlcNext ==
    \/ HtlcMonitor
    \/ ChannelsFetchFails

SpecHtlc == HtlcInit /\ [][HtlcNext]_vars

(***************************************************************************)
(* fees / autoFeeSuggestion                                                *)
(***************************************************************************)
\* The tier of a channel: ratio < 30, ratio > 70, or in between.
SuggestedPpm(ratio, p) ==
    IF ratio < 30 THEN p.lowBalanceFee
    ELSE IF ratio > 70 THEN p.highBalanceFee
    ELSE p.balancedFee

FeeReason(ratio) ==
    IF ratio < 30 THEN "Low local balance - high fee to discourage drain"
    ELSE IF ratio > 70 THEN "High local balance - low fee to encourage outflow"
    ELSE "Well balanced - standard fee"

\* The object chans.map returns for channel c, given the rounded ratio.
Suggestion(c, ratio, p) ==
    [chan_id |-> c.chan_id,
     channel_point |-> c.channel_point,
     capacity_sat |-> ParseIntOr0(c.capacity),
     local_balance_sat |-> ParseIntOr0(c.local_balance),
     local_ratio_pct |-> ratio,
     suggested_fee_rate_ppm |-> SuggestedPpm(ratio, p),
     suggested_base_fee_msat |-> p.autoBaseFee,
     reason |-> FeeReason(ratio)]

\* The possible values of `suggestions`.
SuggestionChoices(list, p) ==
    SeqProduct([k \in 1..Len(list) |->
                   {Suggestion(list[k], ratio, p) :
                       ratio \in LocalRatioChoices(list[k])}])

\* The body of POST /v1/chanpolicy for suggestion s.  The channel point is
\* sent split at ':' into funding_txid_str and output_index; the model
\* keeps it whole.
PolicyCall(s) ==
    [chan_point |-> s.channel_point,
     base_fee_msat |-> s.suggested_base_fee_msat,
     fee_rate_ppm |-> s.suggested_fee_rate_ppm,
     time_lock_delta |-> 40,
     outcome |-> "pending"]

\* responseData of autoFeeSuggestion.
FeeSuggestionReport(list, apply) ==
    [total_channels |-> Len(list), applied |-> apply, suggestions |-> list]

\* The channels of the fee suggestion's specification: one per tier and
\* one on each tier boundary.
FeeChannels ==
    {Channel("chanA", "txA:0", <<1000000>>, <<200000>>, <<>>),
     Channel("chanB", "txB:1", <<1000000>>, <<300000>>, <<>>),
     Channel("chanC", "txC:0", <<1000000>>, <<700000>>, <<>>),
     Channel("chanD", "txD:2", <<1000000>>, <<900000>>, <<>>),
     Channel("chanE", "txE:0", <<>>, <<>>, <<>>)}

FeeInit ==
    /\ op = "autoFeeSuggestion"
    /\ pc = "start"
    /\ params \in [lowBalanceFee : {500}, balancedFee : {100},
                   highBalanceFee : {10}, autoBaseFee : {1000},
                   applySuggestions : BOOLEAN]
    /\ chans = <<>>
    /\ allEvents = <<>>
    /\ indexOffset = 0
    /\ hasMore = FALSE
    /\ sent = <<>>
    /\ recv = <<>>
    /\ suggestions = <<>>
    /\ applied = <<>>
    /\ clock = 0
    /\ range = <<>>
    /\ utxos = <<>>
    /\ leases = <<>>
    /\ frozenResults = <<>>
    /\ items = 1
    /\ itemIndex = 1
    /\ continueOnFail \in BOOLEAN
    /\ returnData = <<>>
    /\ thrown = FALSE

\* GET /v1/channels resolves and the suggestions are computed.
FeeSuggest ==
    /\ pc = "start"
    /\ op = "autoFeeSuggestion"
    /\ \E field \in ChannelsFields(FeeChannels) :
          /\ chans' = ChannelsOf(field)
          /\ suggestions' \in SuggestionChoices(ChannelsOf(field), params)
    /\ pc' = "apply"
    /\ UNCHANGED <<inputVars, range, walletVars,
                   collectorVars, applied, returnData, thrown>>

\* if (apply) for (const s of suggestions) { await lndRequest(POST
\* /v1/chanpolicy, ...): the request for the next suggestion is issued.
SendPolicyUpdate ==
    /\ pc = "apply"
    /\ params.applySuggestions
    /\ Len(applied) < Len(suggestions)
    /\ applied' = Append(applied, PolicyCall(suggestions[Len(applied) + 1]))
    /\ pc' = "await_policy"
    /\ UNCHANGED <<inputVars, range, walletVars,
                   chans, collectorVars, suggestions, returnData,
                   thrown>>

\* The awaited policy update resolves: on to the next suggestion.
PolicyUpdateOk ==
    /\ pc = "await_policy"
    /\ applied' = [applied EXCEPT ![Len(applied)].outcome = "ok"]
    /\ pc' = "apply"
    /\ UNCHANGED <<inputVars, range, walletVars,
                   chans, collectorVars, suggestions, returnData,
                   thrown>>

\* A slip the no-rollback claim must notice: a rejected update undoing the
\* updates made before it.
PolicyUpdateFailsReverting ==
    /\ pc = "await_policy"
    /\ applied' = [k \in 1..Len(applied) |->
                      [applied[k] EXCEPT !.outcome =
                          IF k < Len(applied) THEN "reverted" ELSE "failed"]]
    /\ Catch("LND API error")
    /\ UNCHANGED <<inputVars, range, walletVars,
                   chans, collectorVars, suggestions>>

\* The awaited policy update rejects.  The loop has no try of its own: the
\* error leaves it and reaches execute's catch clause.
PolicyUpdateFails ==
    /\ pc = "await_policy"
    /\ applied' = [applied EXCEPT ![Len(applied)].outcome = "failed"]
    /\ Catch("LND API error")
    /\ UNCHANGED <<inputVars, range, walletVars,
                   chans, collectorVars, suggestions>>

\* Nothing (more) to apply: the report is built and pushed.
FeeReport ==
    /\ pc = "apply"
    /\ ~params.applySuggestions \/ Len(applied) = Len(suggestions)
    /\ returnData' =
          Append(returnData,
                 ReportEntry(FeeSuggestionReport(suggestions,
                                                 params.applySuggestions)))
    /\ pc' = "done"
    /\ UNCHANGED <<inputVars, range, walletVars,
                   chans, collectorVars, feeVars, thrown>>

FeeNext ==
    \/ FeeSuggest
    \/ ChannelsFetchFails
    \/ SendPolicyUpdate
    \/ PolicyUpdateOk
    \/ PolicyUpdateFails
    \/ FeeReport

SpecFee == FeeInit /\ [][FeeNext]_vars

(***************************************************************************)
(* routing / dustAnalysis, as a function of the collected events.          *)
(*                                                                         *)
(* The two aggregation loops are written by what they leave behind (one    *)
(* entry per key, in the order the keys were first met, holding the count, *)
(* sums and extremes of the key's events) rather than event by event, so   *)
(* that arrays of several hundred events remain evaluable.                 *)
(***************************************************************************)
\* Math.floor(parseInt(e.amt_out_msat || '0') / 1000)
AmtOutSat(e) == ParseIntOr0(e.amt_out_msat) \div 1000

\* A slip the partition claim must notice: the dust test made strict while
\* the normal test stays strict too.
IsDustEventStrict(e, dustThresholdSat) == AmtOutSat(e) < dustThresholdSat

\* The predicate of events.filter at 1547-1550.
IsDustEvent(e, dustThresholdSat) == AmtOutSat(e) <= dustThresholdSat

\* The predicate of events.filter at 1609.
IsNormalEvent(e, dustThresholdSat) == AmtOutSat(e) > dustThresholdSat

DustEventsOf(events, dustThresholdSat) ==
    SelectSeq(events, LAMBDA e : IsDustEvent(e, dustThresholdSat))

NormalEventsOf(events, dustThresholdSat) ==
    SelectSeq(events, LAMBDA e : IsNormalEvent(e, dustThresholdSat))

\* `${inChan}->${outChan}`
RouteKey(e) == OrUnknown(e.chan_id_in) \o "->" \o OrUnknown(e.chan_id_out)

\* The positions at which a key is met for the first time, in order.
FirstOccurrences(keys) ==
    LET firsts == {k \in 1..Len(keys) :
                      \A j \in 1..(k - 1) : keys[j] # keys[k]}
    IN  [i \in 1..Cardinality(firsts) |->
            CHOOSE k \in firsts : Cardinality({j \in firsts : j < k}) = i - 1]

MinOf(S) == CHOOSE x \in S : \A y \in S : x <= y
MaxOf(S) == CHOOSE x \in S : \A y \in S : x >= y

\* chanDustStats[key] after the loop at 1554-1579.  min_amount_sat starts
\* at Infinity and max_amount_sat at 0; an entry exists only once an event
\* has been counted in it.
RouteStats(dustEvents, key) ==
    LET mine == SelectSeq(dustEvents, LAMBDA e : RouteKey(e) = key)
        sats == {AmtOutSat(mine[k]) : k \in 1..Len(mine)}
    IN  [route |-> key,
         chan_id_in |-> OrUnknown(mine[1].chan_id_in),
         chan_id_out |-> OrUnknown(mine[1].chan_id_out),
         dust_forward_count |-> Len(mine),
         total_dust_amount_msat |->
             SumSeq([k \in 1..Len(mine) |-> ParseIntOr0(mine[k].amt_out_msat)]),
         total_dust_fee_msat |->
             SumSeq([k \in 1..Len(mine) |-> ParseIntOr0(mine[k].fee_msat)]),
         min_amount_sat |-> MinOf(sats),
         max_amount_sat |-> MaxOf(sats \cup {0})]

\* Object.values(chanDustStats)
ChanDustStats(dustEvents) ==
    LET keys == [k \in 1..Len(dustEvents) |-> RouteKey(dustEvents[k])]
        firsts == FirstOccurrences(keys)
    IN  [i \in 1..Len(firsts) |-> RouteStats(dustEvents, keys[firsts[i]])]

\* A slip the recommendations must notice: the dust counted on the
\* channel it left through instead of the one it came in by.
InboundDustByOut(dustEvents) ==
    LET keys == [k \in 1..Len(dustEvents) |-> OrUnknown(dustEvents[k].chan_id_out)]
        firsts == FirstOccurrences(keys)
    IN  [i \in 1..Len(firsts) |->
            [chan_id_in |-> keys[firsts[i]],
             dust_count |-> Cardinality({k \in 1..Len(keys) :
                                            keys[k] = keys[firsts[i]]})]]

\* Object.entries(inboundDust) after the loop at 1583-1586.
InboundDust(dustEvents) ==
    LET keys == [k \in 1..Len(dustEvents) |-> OrUnknown(dustEvents[k].chan_id_in)]
        firsts == FirstOccurrences(keys)
    IN  [i \in 1..Len(firsts) |->
            [chan_id_in |-> keys[firsts[i]],
             dust_count |-> Cardinality({k \in 1..Len(keys) :
                                            keys[k] = keys[firsts[i]]})]]

\* A slip the suspicion claim must notice: the rate threshold made strict.
IsSuspiciousStrict(count, suspiciousThreshold) == count > suspiciousThreshold

\* r.dust_forward_count >= suspiciousThreshold, count >= suspiciousThreshold
IsSuspicious(count, suspiciousThreshold) == count >= suspiciousThreshold

\* .map(r => ({...r, total_dust_amount_sat, ..., suspicious: true}))
SuspiciousRoute(r) ==
    [route |-> r.route, chan_id_in |-> r.chan_id_in,
     chan_id_out |-> r.chan_id_out,
     dust_forward_count |-> r.dust_forward_count,
     total_dust_amount_msat |-> r.total_dust_amount_msat,
     total_dust_fee_msat |-> r.total_dust_fee_msat,
     min_amount_sat |-> r.min_amount_sat,
     max_amount_sat |-> r.max_amount_sat,
     total_dust_amount_sat |-> r.total_dust_amount_msat \div 1000,
     total_dust_fee_sat |-> r.total_dust_fee_msat \div 1000,
     avg_amount_sat |->
         IF r.dust_forward_count > 0
            THEN r.total_dust_amount_msat \div (r.dust_forward_count * 1000)
            ELSE 0,
     suspicious |-> TRUE]

\* One step of a stable sort by (a, b) => b.dust_forward_count -
\* a.dust_forward_count.
InsertByDustForwardsDesc(sorted, x) ==
    LET pos == Cardinality({k \in 1..Len(sorted) :
                  sorted[k].dust_forward_count >= x.dust_forward_count})
    IN  SubSeq(sorted, 1, pos) \o <<x>> \o SubSeq(sorted, pos + 1, Len(sorted))

RECURSIVE SortByDustForwardsDesc(_)
SortByDustForwardsDesc(entries) ==
    IF entries = <<>>
       THEN <<>>
       ELSE InsertByDustForwardsDesc(
                SortByDustForwardsDesc(SubSeq(entries, 1, Len(entries) - 1)),
                entries[Len(entries)])

\* One step of a stable sort by (a, b) => b.dust_count - a.dust_count.
InsertByDustCountDesc(sorted, x) ==
    LET pos == Cardinality({k \in 1..Len(sorted) :
                               sorted[k].dust_count >= x.dust_count})
    IN  SubSeq(sorted, 1, pos) \o <<x>> \o SubSeq(sorted, pos + 1, Len(sorted))

RECURSIVE SortByDustCountDesc(_)
SortByDustCountDesc(entries) ==
    IF entries = <<>>
       THEN <<>>
       ELSE InsertByDustCountDesc(
                SortByDustCountDesc(SubSeq(entries, 1, Len(entries) - 1)),
                entries[Len(entries)])

SuspiciousRoutes(dustEvents, suspiciousThreshold) ==
    LET flagged == SelectSeq(ChanDustStats(dustEvents),
                      LAMBDA r : IsSuspicious(r.dust_forward_count,
                                              suspiciousThreshold))
    IN  SortByDustForwardsDesc([k \in 1..Len(flagged) |->
                                   SuspiciousRoute(flagged[k])])

SuspiciousInbound(dustEvents, suspiciousThreshold) ==
    SortByDustCountDesc(
        SelectSeq(InboundDust(dustEvents),
                  LAMBDA c : IsSuspicious(c.dust_count, suspiciousThreshold)))

\* suspiciousInbound.map(c => ({action: 'increase_min_htlc', ...}))
Recommendation(c, dustThresholdSat) ==
    [action |-> "increase_min_htlc",
     chan_id |-> c.chan_id_in,
     reason |-> [text |-> "N dust forwards received via this channel",
                 n |-> c.dust_count],
     suggested_min_htlc_msat |-> dustThresholdSat * 1000]

\* responseData of dustAnalysis.  The two rounded percentages are doubles
\* rounded, so the report is one of a set.  A template string is a record
\* of its text and the numbers put in it; null is the empty sequence.
DustAnalysisReports(events, period, dustThresholdSat, suspiciousThreshold) ==
    LET dustEvents == DustEventsOf(events, dustThresholdSat)
        normalEvents == NormalEventsOf(events, dustThresholdSat)
        suspiciousRoutes == SuspiciousRoutes(dustEvents, suspiciousThreshold)
        suspiciousInbound == SuspiciousInbound(dustEvents, suspiciousThreshold)
        totalDustFee ==
            SumSeq([k \in 1..Len(dustEvents) |->
                       ParseIntOr0(dustEvents[k].fee_msat)])
        totalNormalFee ==
            SumSeq([k \in 1..Len(normalEvents) |->
                       ParseIntOr0(normalEvents[k].fee_msat)])
        dustPcts == IF Len(events) > 0
                       THEN RoundPctChoices(Len(dustEvents), Len(events))
                       ELSE {0}
        warnings ==
            IF totalDustFee > 0 /\ totalNormalFee > 0
               THEN {<<[text |-> "Dust forwards represent N% of fee revenue but may cost more in force-close risk",
                        n |-> pct]>> :
                        pct \in RoundPctChoices(totalDustFee,
                                                totalDustFee + totalNormalFee)}
               ELSE {<<>>}
    IN  {[period |-> period,
          dust_threshold_sat |-> dustThresholdSat,
          suspicious_rate_threshold |-> suspiciousThreshold,
          total_forwards |-> Len(events),
          total_dust_forwards |-> Len(dustEvents),
          dust_percentage |-> dustPct,
          total_dust_fee_earned_msat |-> totalDustFee,
          total_dust_fee_earned_sat |-> totalDustFee \div 1000,
          total_normal_fee_earned_msat |-> totalNormalFee,
          total_normal_fee_earned_sat |-> totalNormalFee \div 1000,
          fee_efficiency_warning |-> warning,
          suspicious_routes_count |-> Len(suspiciousRoutes),
          suspicious_inbound_channels |-> Len(suspiciousInbound),
          alert |->
              IF Len(suspiciousRoutes) > 0
                 THEN [text |-> "DUST ATTACK WARNING: N route(s) with T+ dust forwards detected",
                       n |-> Len(suspiciousRoutes)]
                 ELSE [text |-> "No suspicious dust patterns detected",
                       n |-> 0],
          recommendations |->
              [k \in 1..Len(suspiciousInbound) |->
                  Recommendation(suspiciousInbound[k], dustThresholdSat)],
          suspicious_routes |-> suspiciousRoutes,
          suspicious_inbound_details |-> suspiciousInbound] :
            dustPct \in dustPcts, warning \in warnings}

\* The forwarding events handed to the dust analysis: outbound amounts at,
\* just inside and just above 100 sat, missing fields and missing ids, and
\* dust that comes in by chanA and leaves by two channels.
DustAnalysisEvents ==
    {Event("chanA", "chanB", <<10>>, <<100010>>, <<100000>>),
     Event("chanA", "chanC", <<7>>, <<60007>>, <<60000>>),
     Event("chanA", "chanB", <<20>>, <<101019>>, <<100999>>),
     Event("chanA", "chanB", <<3000>>, <<104000>>, <<101000>>),
     Event("chanB", "chanA", <<5>>, <<50005>>, <<50000>>),
     Event("", "chanB", <<>>, <<>>, <<>>),
     Event("chanA", "chanC", <<1000>>, <<5001000>>, <<5000000>>)}

\* 500 forwarding events: 300 of at most 100 sat, all from chanA to chanB,
\* and 200 larger ones spread over two other routes.
ManyDustEvents ==
    [k \in 1..500 |->
        IF k % 5 < 3
           THEN Event("chanA", "chanB", <<1>>, <<90001 + k>>, <<90000 + k>>)
           ELSE IF k % 5 = 3
                   THEN Event("chanB", "chanC", <<2000>>, <<2002000>>, <<2000000>>)
                   ELSE Event("chanC", "chanA", <<1500>>, <<901500>>, <<900000>>)]

\* The rate thresholds of the model: the default 50, and small ones the
\* short event sequences can meet.
SuspiciousRateThresholds == {0, 1, 2, 50}

DustInit ==
    /\ op = "dustAnalysis"
    /\ pc = "loop"
    /\ \E period \in {"1h", "24h"}, rate \in SuspiciousRateThresholds :
          params = [dustTimeRange |-> period,
                    dustAnalysisThresholdSat |-> 100,
                    suspiciousRateThreshold |-> rate]
    /\ chans = <<>>
    /\ allEvents \in SeqsUpTo(DustAnalysisEvents, MaxEvents) \cup {ManyDustEvents}
    /\ indexOffset = 0
    /\ hasMore = FALSE
    /\ sent = <<>>
    /\ recv = <<>>
    /\ suggestions = <<>>
    /\ applied = <<>>
    /\ clock = 0
    /\ range = <<>>
    /\ utxos = <<>>
    /\ leases = <<>>
    /\ frozenResults = <<>>
    /\ items = 1
    /\ itemIndex = 1
    /\ continueOnFail \in BOOLEAN
    /\ returnData = <<>>
    /\ thrown = FALSE

\* getAllForwardingEvents has returned: dustAnalysis builds its report from
\* the events and pushes it on returnData.
DustAnalysis ==
    /\ pc = "loop"
    /\ ~hasMore
    /\ \E report \in DustAnalysisReports(allEvents, params.dustTimeRange,
                                         params.dustAnalysisThresholdSat,
                                         params.suspiciousRateThreshold) :
          returnData' = Append(returnData, ReportEntry(report))
    /\ pc' = "done"
    /\ UNCHANGED <<inputVars, range, walletVars,
                   chans, collectorVars, feeVars, thrown>>

DustNext == DustAnalysis

SpecDust == DustInit /\ [][DustNext]_vars

(***************************************************************************)
(* wallet / detectDustUtxos.  A UTXO carries its outpoint (txid_str and    *)
(* output_index, which LND always sends), its amount_sat (possibly         *)
(* missing) and its address.                                               *)
(***************************************************************************)
Utxo(txid, index, amount, address) ==
    [outpoint |-> [txid_str |-> txid, output_index |-> index],
     amount_sat |-> amount, address |-> address, confirmations |-> <<6>>]

\* Math.round(a / b) for a >= 0, b > 0: one correctly rounded division,
\* then round half up.
RoundDiv(a, b) == (2 * a + b) \div (2 * b)

\* A slip the classification claim must notice: the dust test made strict.
IsDustUtxoStrict(u, dustThreshold) == ParseIntOr0(u.amount_sat) < dustThreshold

\* parseInt(u.amount_sat || '0') <= dustThreshold
IsDustUtxo(u, dustThreshold) == ParseIntOr0(u.amount_sat) <= dustThreshold

\* parseInt(u.amount_sat || '0') > dustThreshold
IsNormalUtxo(u, dustThreshold) == ParseIntOr0(u.amount_sat) > dustThreshold

DustUtxos(allUtxos, dustThreshold) ==
    SelectSeq(allUtxos, LAMBDA u : IsDustUtxo(u, dustThreshold))

NormalUtxos(allUtxos, dustThreshold) ==
    SelectSeq(allUtxos, LAMBDA u : IsNormalUtxo(u, dustThreshold))

\* `${txid_str}:${output_index}`, kept as the pair.
Outpoint(u) == [txid |-> u.outpoint.txid_str, index |-> u.outpoint.output_index]

\* dustUtxos.map(u => ({txid, output_index, outpoint, amount_sat, ...}))
DustDetail(u) ==
    [txid |-> u.outpoint.txid_str,
     output_index |-> u.outpoint.output_index,
     outpoint |-> Outpoint(u),
     amount_sat |-> ParseIntOr0(u.amount_sat),
     address |-> u.address,
     confirmations |-> ParseIntOr0(u.confirmations),
     risk |-> "dust_attack_likely",
     recommendation |-> "Do NOT spend - freeze this UTXO"]

\* The body of POST /v2/wallet/utxos/lease for one dust UTXO, and what
\* became of the request.
LeaseCall(u, freezeDuration) ==
    [outpoint |-> Outpoint(u), expiration_seconds |-> freezeDuration,
     outcome |-> "pending"]

\* frozenResults.push({outpoint, status: 'frozen', ...})
FrozenEntry(u, freezeDuration) ==
    [outpoint |-> Outpoint(u), status |-> "frozen",
     lease_duration_seconds |-> freezeDuration,
     lease_duration_days |-> RoundDiv(freezeDuration, 86400)]

\* frozenResults.push({outpoint, status: 'freeze_failed', error})
FreezeFailedEntry(u, msg) ==
    [outpoint |-> Outpoint(u), status |-> "freeze_failed", error |-> msg]

\* responseData of detectDustUtxos; undefined is the empty sequence.
DustUtxoReport(allUtxos, dustThreshold, autoFreeze, frozen) ==
    LET dustUtxos == DustUtxos(allUtxos, dustThreshold)
        normalUtxos == NormalUtxos(allUtxos, dustThreshold)
        dustDetails == [k \in 1..Len(dustUtxos) |-> DustDetail(dustUtxos[k])]
        totalDustAmount ==
            SumSeq([k \in 1..Len(dustDetails) |-> dustDetails[k].amount_sat])
        totalNormalAmount ==
            SumSeq([k \in 1..Len(normalUtxos) |->
                       ParseIntOr0(normalUtxos[k].amount_sat)])
    IN  [dust_threshold_sat |-> dustThreshold,
         total_utxos |-> Len(allUtxos),
         dust_utxos_count |-> Len(dustDetails),
         normal_utxos_count |-> Len(normalUtxos),
         dust_total_sat |-> totalDustAmount,
         normal_total_sat |-> totalNormalAmount,
         alert |->
             IF Len(dustDetails) > 0
                THEN [text |-> "N dust UTXO(s) detected (T sats) - potential dust attack",
                      n |-> Len(dustDetails), total |-> totalDustAmount]
                ELSE [text |-> "No dust UTXOs detected", n |-> 0, total |-> 0],
         auto_freeze_enabled |-> autoFreeze,
         frozen_results |-> IF Len(frozen) > 0 THEN <<frozen>> ELSE <<>>,
         dust_utxos |-> dustDetails]

\* The most UTXOs POST /v2/wallet/utxos returns in the model.
MaxUtxos == 3

\* The UTXOs of the model: amounts below, at and above the threshold 1000,
\* and a missing amount.
WalletUtxos ==
    {Utxo("txA", 0, <<546>>, "addrA"),
     Utxo("txB", 1, <<1000>>, "addrB"),
     Utxo("txC", 0, <<1001>>, "addrC"),
     Utxo("txD", 2, <<>>, "")}

\* utxosResp.utxos: missing, or a list.
UtxosFields == {<<>>} \cup {<<l>> : l \in SeqsUpTo(WalletUtxos, MaxUtxos)}

\* utxosResp.utxos || []
UtxosOf(field) == IF field = <<>> THEN <<>> ELSE field[1]

WalletInit ==
    /\ op = "detectDustUtxos"
    /\ pc = "start"
    /\ \E autoFreeze \in BOOLEAN :
          params = [utxoDustThreshold |-> 1000,
                    autoFreezeDust |-> autoFreeze,
                    freezeDuration |-> 2592000]
    /\ chans = <<>>
    /\ allEvents = <<>>
    /\ indexOffset = 0
    /\ hasMore = FALSE
    /\ sent = <<>>
    /\ recv = <<>>
    /\ suggestions = <<>>
    /\ applied = <<>>
    /\ clock = 0
    /\ range = <<>>
    /\ utxos = <<>>
    /\ leases = <<>>
    /\ frozenResults = <<>>
    /\ items = 1
    /\ itemIndex = 1
    /\ continueOnFail \in BOOLEAN
    /\ returnData = <<>>
    /\ thrown = FALSE

\* A slip the opt-in must notice: the freeze loop entered whenever there
\* is dust, whether or not auto-freeze is on.
DetectDustUtxosFreezingUnasked ==
    /\ pc = "start"
    /\ \E field \in UtxosFields :
          /\ utxos' = UtxosOf(field)
          /\ pc' = IF Len(DustUtxos(UtxosOf(field),
                                    params.utxoDustThreshold)) > 0
                      THEN "freeze"
                      ELSE "report"
    /\ UNCHANGED <<inputVars, range, chans, collectorVars, feeVars, leases,
                   frozenResults, returnData, thrown>>

\* POST /v2/wallet/utxos resolves: the UTXOs are partitioned, and the
\* freeze loop is entered if auto-freeze is on and there is dust.
DetectDustUtxos ==
    /\ pc = "start"
    /\ \E field \in UtxosFields :
          /\ utxos' = UtxosOf(field)
          /\ pc' = IF params.autoFreezeDust
                      /\ Len(DustUtxos(UtxosOf(field),
                                       params.utxoDustThreshold)) > 0
                      THEN "freeze"
                      ELSE "report"
    /\ UNCHANGED <<inputVars, range, chans, collectorVars, feeVars, leases,
                   frozenResults, returnData, thrown>>

\* POST /v2/wallet/utxos rejects.
UtxosFetchFails ==
    /\ pc = "start"
    /\ Catch("Connection error to LND")
    /\ UNCHANGED <<inputVars, range, walletVars,
                   chans, collectorVars, feeVars>>

\* for (const dust of dustUtxos) { try { await lndRequest(POST
\* /v2/wallet/utxos/lease, ...)
SendLease ==
    /\ pc = "freeze"
    /\ LET dustUtxos == DustUtxos(utxos, params.utxoDustThreshold)
       IN  /\ Len(leases) < Len(dustUtxos)
           /\ leases' = Append(leases,
                               LeaseCall(dustUtxos[Len(leases) + 1],
                                         params.freezeDuration))
    /\ pc' = "await_lease"
    /\ UNCHANGED <<inputVars, range, chans, collectorVars, feeVars, utxos,
                   frozenResults, returnData, thrown>>

\* The lease resolves: the rest of the try block.
LeaseOk ==
    /\ pc = "await_lease"
    /\ LET dustUtxos == DustUtxos(utxos, params.utxoDustThreshold)
       IN  frozenResults' = Append(frozenResults,
                                   FrozenEntry(dustUtxos[Len(leases)],
                                               params.freezeDuration))
    /\ leases' = [leases EXCEPT ![Len(leases)].outcome = "ok"]
    /\ pc' = "freeze"
    /\ UNCHANGED <<inputVars, range, chans, collectorVars, feeVars, utxos,
                   returnData, thrown>>

\* A slip the freeze claim must notice: the try/catch around the lease
\* forgotten, so that a rejected lease reaches execute's catch clause.
LeaseFailsUncaught ==
    /\ pc = "await_lease"
    /\ Catch("LND API error")
    /\ leases' = [leases EXCEPT ![Len(leases)].outcome = "failed"]
    /\ UNCHANGED <<inputVars, range, chans, collectorVars, feeVars, utxos,
                   frozenResults>>

\* The lease rejects: the catch block of the loop body.
LeaseFails ==
    /\ pc = "await_lease"
    /\ LET dustUtxos == DustUtxos(utxos, params.utxoDustThreshold)
       IN  frozenResults' = Append(frozenResults,
                                   FreezeFailedEntry(dustUtxos[Len(leases)],
                                                     "LND API error"))
    /\ leases' = [leases EXCEPT ![Len(leases)].outcome = "failed"]
    /\ pc' = "freeze"
    /\ UNCHANGED <<inputVars, range, chans, collectorVars, feeVars, utxos,
                   returnData, thrown>>

\* The freeze loop has ended, or was not entered: the report is built and
\* pushed.
DustUtxoReporting ==
    /\ \/ pc = "report"
       \/ /\ pc = "freeze"
          /\ Len(leases) = Len(DustUtxos(utxos, params.utxoDustThreshold))
    /\ returnData' = Append(returnData,
                            ReportEntry(DustUtxoReport(utxos,
                                            params.utxoDustThreshold,
                                            params.autoFreezeDust,
                                            frozenResults)))
    /\ pc' = "done"
    /\ UNCHANGED <<inputVars, range, walletVars,
                   chans, collectorVars, feeVars, thrown>>

WalletNext ==
    \/ DetectDustUtxos
    \/ UtxosFetchFails
    \/ SendLease
    \/ LeaseOk
    \/ LeaseFails
    \/ DustUtxoReporting

SpecWallet == WalletInit /\ [][WalletNext]_vars

(***************************************************************************)
(* rebalance / suggestRebalances                                           *)
(***************************************************************************)
\* A channel with the fields suggestRebalances and peerScoring read beside
\* those of Channel.
PeerChannel(id, pubkey, active, cap, local, uptime, lifetime) ==
    [chan_id |-> id, channel_point |-> id \o ":0", remote_pubkey |-> pubkey,
     active |-> active, capacity |-> cap, local_balance |-> local,
     uptime |-> uptime, lifetime |-> lifetime]

Min(a, b) == IF a <= b THEN a ELSE b

\* Math.round(cap * (targetRatio / 100)) for cap, targetRatio >= 0.  The
\* quotient targetRatio / 100 is exact for the multiples of 25 only; for
\* the others a product lying half way between two integers may round to
\* either.
IdealLocalChoices(cap, targetRatio) ==
    LET lo == (cap * targetRatio) \div 100
        rest == (cap * targetRatio) % 100
    IN  IF rest < 50 THEN {lo}
        ELSE IF rest > 50 \/ targetRatio % 25 = 0 THEN {lo + 1}
        ELSE {lo, lo + 1}

\* The entry lines 1905-1915 build for a channel.
RebalanceEntry(c, ratio, idealLocal, targetRatio) ==
    LET cap == ParseIntOr0(c.capacity)
        local == ParseIntOr0(c.local_balance)
        diff == local - idealLocal
    IN  [chan_id |-> c.chan_id,
         channel_point |-> c.channel_point,
         remote_pubkey |-> c.remote_pubkey,
         capacity_sat |-> cap,
         local_balance_sat |-> local,
         local_ratio_pct |-> ratio,
         target_ratio_pct |-> targetRatio,
         deviation_pct |-> IF ratio >= targetRatio
                              THEN ratio - targetRatio
                              ELSE targetRatio - ratio,
         amount_to_move_sat |-> IF diff >= 0 THEN diff ELSE -diff]

\* What one turn of the loop at 1895-1922 does with a channel: nothing
\* ("skip"), sources.push(entry) or sinks.push(entry).
Classified(c, ratio, idealLocal, targetRatio, minDeviation) ==
    LET entry == RebalanceEntry(c, ratio, idealLocal, targetRatio)
        diff == ParseIntOr0(c.local_balance) - idealLocal
    IN  [list |-> IF ~c.active THEN "skip"
                  ELSE IF ~(entry.deviation_pct >= minDeviation) THEN "skip"
                  ELSE IF diff > 0 THEN "sources"
                  ELSE "sinks",
         entry |-> entry]

ClassifiedChoices(list, targetRatio, minDeviation) ==
    SeqProduct([k \in 1..Len(list) |->
        {Classified(list[k], ratio, idealLocal, targetRatio, minDeviation) :
            ratio \in LocalRatioChoices(list[k]),
            idealLocal \in IdealLocalChoices(ParseIntOr0(list[k].capacity),
                                             targetRatio)}])

\* The entries pushed on the named list, in the order of the pushes.
Pushed(classified, name) ==
    LET mine == SelectSeq(classified, LAMBDA x : x.list = name)
    IN  [k \in 1..Len(mine) |-> mine[k].entry]

\* A slip the pairing claim must notice: the larger of the two amounts
\* suggested.
PairAmountLarger(a, b) == IF a >= b THEN a ELSE b

\* Math.min(sources[si].amount_to_move_sat, sinks[si].amount_to_move_sat)
PairAmount(a, b) == Min(a, b)

\* The suggestions pushed by the loop at 1925-1936.
Pairs(sources, sinks) ==
    [si \in 1..Min(Len(sources), Len(sinks)) |->
        [from_channel |-> sources[si].chan_id,
         from_pubkey |-> sources[si].remote_pubkey,
         from_local_ratio_pct |-> sources[si].local_ratio_pct,
         to_channel |-> sinks[si].chan_id,
         to_pubkey |-> sinks[si].remote_pubkey,
         to_local_ratio_pct |-> sinks[si].local_ratio_pct,
         suggested_amount_sat |-> PairAmount(sources[si].amount_to_move_sat,
                                             sinks[si].amount_to_move_sat)]]

\* responseData of suggestRebalances.
RebalanceReport(classified, targetRatio, minDeviation) ==
    LET sources == Pushed(classified, "sources")
        sinks == Pushed(classified, "sinks")
    IN  [target_ratio_pct |-> targetRatio,
         min_deviation_pct |-> minDeviation,
         channels_need_outflow |-> Len(sources),
         channels_need_inflow |-> Len(sinks),
         suggested_rebalances |-> Pairs(sources, sinks),
         sources |-> sources,
         sinks |-> sinks]

\* The most channels GET /v1/channels returns to suggestRebalances in the
\* model.
MaxRebalanceChans == 3

\* Channels of 1,000,000 sat far above, far below, near and exactly at
\* half, an inactive one, one without capacity and a tiny one.
RebalanceChannels ==
    {PeerChannel("chanA", "peerA", TRUE, <<1000000>>, <<900000>>, <<>>, <<>>),
     PeerChannel("chanB", "peerB", TRUE, <<1000000>>, <<100000>>, <<>>, <<>>),
     PeerChannel("chanC", "peerA", TRUE, <<1000000>>, <<750000>>, <<>>, <<>>),
     PeerChannel("chanD", "peerC", TRUE, <<1000000>>, <<500000>>, <<>>, <<>>),
     PeerChannel("chanE", "peerC", TRUE, <<1000000>>, <<600000>>, <<>>, <<>>),
     PeerChannel("chanF", "peerB", TRUE, <<>>, <<>>, <<>>, <<>>),
     PeerChannel("chanG", "peerB", TRUE, <<2>>, <<1>>, <<>>, <<>>),
     PeerChannel("chanZ", "peerA", FALSE, <<1000000>>, <<900000>>, <<>>, <<>>)}

RebalanceFields ==
    {<<>>} \cup {<<l>> : l \in SeqsUpTo(RebalanceChannels, MaxRebalanceChans)}

RebalanceInit ==
    /\ op = "suggestRebalances"
    /\ pc = "start"
    /\ \E targetRatio \in {30, 50}, minDeviation \in {0, 20} :
          params = [targetRatio |-> targetRatio,
                    minDeviation |-> minDeviation]
    /\ chans = <<>>
    /\ allEvents = <<>>
    /\ indexOffset = 0
    /\ hasMore = FALSE
    /\ sent = <<>>
    /\ recv = <<>>
    /\ suggestions = <<>>
    /\ applied = <<>>
    /\ clock = 0
    /\ range = <<>>
    /\ utxos = <<>>
    /\ leases = <<>>
    /\ frozenResults = <<>>
    /\ items = 1
    /\ itemIndex = 1
    /\ continueOnFail \in BOOLEAN
    /\ returnData = <<>>
    /\ thrown = FALSE

\* GET /v1/channels resolves and the report is built and pushed.
SuggestRebalances ==
    /\ pc = "start"
    /\ op = "suggestRebalances"
    /\ \E field \in RebalanceFields :
          /\ chans' = ChannelsOf(field)
          /\ \E classified \in ClassifiedChoices(ChannelsOf(field),
                                                 params.targetRatio,
                                                 params.minDeviation) :
                returnData' =
                    Append(returnData,
                           ReportEntry(RebalanceReport(classified,
                                                       params.targetRatio,
                                                       params.minDeviation)))
    /\ pc' = "done"
    /\ UNCHANGED <<inputVars, range, walletVars,
                   collectorVars, feeVars, thrown>>

RebalanceNext ==
    \/ SuggestRebalances
    \/ ChannelsFetchFails

SpecRebalance == RebalanceInit /\ [][RebalanceNext]_vars

(***************************************************************************)
(* peer / peerScoring, as a function of the fetched channels and of the    *)
(* collected events of the last 30 days.                                   *)
(***************************************************************************)
\* chanRevenue[chanId] || 0 after the loop at 1814-1822.  The events' key
\* is chan_id_out || '', so events without outbound id are filed under ''.
ChanRevenue(events, chanId) ==
    LET mine == SelectSeq(events, LAMBDA e : e.chan_id_out = chanId)
    IN  SumSeq([k \in 1..Len(mine) |-> ParseIntOr0(mine[k].fee_msat)])

\* chanForwards[chanId] || 0 after the loop at 1814-1822.
ChanForwards(events, chanId) ==
    Len(SelectSeq(events, LAMBDA e : e.chan_id_out = chanId))
        + Len(SelectSeq(events, LAMBDA e : e.chan_id_in = chanId))

\* c.lifetime && parseInt(c.lifetime) > 0
\*    ? Math.round((parseInt(c.uptime || '0') / parseInt(c.lifetime)) * 100)
\*    : 0
UptimePctChoices(c) ==
    IF ParseIntOr0(c.lifetime) > 0
       THEN RoundPctChoices(ParseIntOr0(c.uptime), ParseIntOr0(c.lifetime))
       ELSE {0}

\* Math.round((a / b) * 1000) for a >= 0, b > 0; as for RoundPctChoices, a
\* value half way between two integers may round to either.
RoundPerMilleChoices(a, b) ==
    LET lo == (1000 * a) \div b
        rest == (1000 * a) % b
    IN  IF 2 * rest < b THEN {lo}
        ELSE IF 2 * rest > b THEN {lo + 1}
        ELSE {lo, lo + 1}

\* peerMap[pk] after the loop at 1826-1854, given the uptime percentage
\* computed for each channel: avg_uptime_pct still holds the sum.
PeerAggregate(list, uptimePcts, events, pk) ==
    LET mine == {k \in 1..Len(list) : list[k].remote_pubkey = pk}
        Over(f) == SumSeq([k \in 1..Len(list) |->
                              IF k \in mine THEN f[k] ELSE 0])
    IN  [pubkey |-> pk,
         channels |-> [k \in 1..Len(SelectSeq(list,
                                      LAMBDA c : c.remote_pubkey = pk)) |->
                          SelectSeq(list,
                              LAMBDA c : c.remote_pubkey = pk)[k].chan_id],
         total_capacity_sat |->
             Over([k \in 1..Len(list) |-> ParseIntOr0(list[k].capacity)]),
         total_local_balance_sat |->
             Over([k \in 1..Len(list) |-> ParseIntOr0(list[k].local_balance)]),
         total_revenue_msat |->
             Over([k \in 1..Len(list) |-> ChanRevenue(events, list[k].chan_id)]),
         total_forwards |->
             Over([k \in 1..Len(list) |-> ChanForwards(events, list[k].chan_id)]),
         avg_uptime_pct |-> Over(uptimePcts)]

\* Object.values(peerMap)
PeerMap(list, uptimePcts, events) ==
    LET keys == [k \in 1..Len(list) |-> list[k].remote_pubkey]
        firsts == FirstOccurrences(keys)
    IN  [i \in 1..Len(firsts) |->
            PeerAggregate(list, uptimePcts, events, keys[firsts[i]])]

\* A slip the uptime claim must notice: the division by the number of
\* channels forgotten, the sum reported as the mean.
AvgUptimeSum(p) == p.avg_uptime_pct

\* numChans > 0 ? Math.round(p.avg_uptime_pct / numChans) : 0
AvgUptime(p) ==
    IF Len(p.channels) > 0
       THEN RoundDiv(p.avg_uptime_pct, Len(p.channels))
       ELSE 0

\* A slip the score claim must notice: the forwards not capped.
ForwardsUncapped(totalForwards) == totalForwards

\* Math.min(p.total_forwards, 1000)
ForwardsCapped(totalForwards) == Min(totalForwards, 1000)

\* Math.round(rpm * 0.5 + avg * 0.3 + capped * 0.2): the sum is
\* (5 rpm + 3 avg + 2 capped) / 10 up to the rounding of 0.3, 0.2 and of
\* the additions, so a sum half way between two integers may round to
\* either.
ScoreChoices(rpm, avg, capped) ==
    LET tenths == 5 * rpm + 3 * avg + 2 * capped
        lo == tenths \div 10
    IN  IF tenths % 10 < 5 THEN {lo}
        ELSE IF tenths % 10 > 5 THEN {lo + 1}
        ELSE {lo, lo + 1}

\* What the map at 1856-1871 can make of one peerMap entry.
PeerScoreChoices(p) ==
    LET avg == AvgUptime(p)
        rpms == IF p.total_capacity_sat > 0
                   THEN RoundPerMilleChoices(p.total_revenue_msat,
                                             p.total_capacity_sat)
                   ELSE {0}
    IN  UNION {{[pubkey |-> p.pubkey,
                 channels |-> p.channels,
                 total_capacity_sat |-> p.total_capacity_sat,
                 total_local_balance_sat |-> p.total_local_balance_sat,
                 total_revenue_msat |-> p.total_revenue_msat,
                 total_forwards |-> p.total_forwards,
                 avg_uptime_pct |-> avg,
                 total_revenue_sat |-> p.total_revenue_msat \div 1000,
                 revenue_per_million_capacity |-> rpm,
                 score |-> score,
                 num_channels |-> Len(p.channels)] :
                   score \in ScoreChoices(rpm, avg,
                                          ForwardsCapped(p.total_forwards))} :
                 rpm \in rpms}

\* One step of a stable sort by (a, b) => b.score - a.score.
InsertByScoreDesc(sorted, x) ==
    LET pos == Cardinality({k \in 1..Len(sorted) : sorted[k].score >= x.score})
    IN  SubSeq(sorted, 1, pos) \o <<x>> \o SubSeq(sorted, pos + 1, Len(sorted))

RECURSIVE SortByScoreDesc(_)
SortByScoreDesc(entries) ==
    IF entries = <<>>
       THEN <<>>
       ELSE InsertByScoreDesc(SortByScoreDesc(SubSeq(entries, 1,
                                                      Len(entries) - 1)),
                              entries[Len(entries)])

\* The reports peerScoring can build.
PeerScoreReports(list, events) ==
    {[total_peers_scored |-> Len(scored),
      period_days |-> 30,
      peer_scores |-> SortByScoreDesc(scored)] :
        scored \in UNION {
            SeqProduct([i \in 1..Len(PeerMap(list, uptimePcts, events)) |->
                PeerScoreChoices(PeerMap(list, uptimePcts, events)[i])]) :
            uptimePcts \in SeqProduct([k \in 1..Len(list) |->
                                          UptimePctChoices(list[k])])}}

\* The most channels GET /v1/channels returns to peerScoring in the model.
MaxPeerChans == 3

\* Channels of three peers: uptimes of 90%, 12.5%, 50% and 100%, and one
\* channel without capacity, uptime or lifetime.
PeerChannels ==
    {PeerChannel("chanA", "peerA", TRUE, <<1000000>>, <<400000>>, <<90>>, <<100>>),
     PeerChannel("chanB", "peerA", TRUE, <<500000>>, <<100000>>, <<1>>, <<8>>),
     PeerChannel("chanC", "peerB", TRUE, <<2000000>>, <<150000>>, <<50>>, <<100>>),
     PeerChannel("chanD", "peerB", FALSE, <<>>, <<>>, <<>>, <<>>),
     PeerChannel("chanE", "peerC", TRUE, <<1000000>>, <<1000000>>, <<100>>, <<100>>)}

\* 600 forwards from chanA to chanB, each earning 100 msat.
ManyForwards ==
    [k \in 1..600 |-> Event("chanA", "chanB", <<100>>, <<200000>>, <<199900>>)]

\* The event sequences handed to peerScoring.
PeerEvents ==
    {<<>>,
     <<Event("chanA", "chanC", <<2500>>, <<800000>>, <<797500>>),
       Event("chanC", "", <<700>>, <<3000>>, <<2300>>),
       Event("", "chanE", <<>>, <<>>, <<>>)>>,
     ManyForwards}

PeerInit ==
    /\ op = "peerScoring"
    /\ pc = "loop"
    /\ params = [period_days |-> 30]
    /\ chans \in SeqsUpTo(PeerChannels, MaxPeerChans)
    /\ allEvents \in PeerEvents
    /\ indexOffset = 0
    /\ hasMore = FALSE
    /\ sent = <<>>
    /\ recv = <<>>
    /\ suggestions = <<>>
    /\ applied = <<>>
    /\ clock = 0
    /\ range = <<>>
    /\ utxos = <<>>
    /\ leases = <<>>
    /\ frozenResults = <<>>
    /\ items = 1
    /\ itemIndex = 1
    /\ continueOnFail \in BOOLEAN
    /\ returnData = <<>>
    /\ thrown = FALSE

\* The channels are fetched and getAllForwardingEvents has returned:
\* peerScoring builds its report and pushes it on returnData.
PeerScoring ==
    /\ pc = "loop"
    /\ ~hasMore
    /\ \E report \in PeerScoreReports(chans, allEvents) :
          returnData' = Append(returnData, ReportEntry(report))
    /\ pc' = "done"
    /\ UNCHANGED <<inputVars, range, walletVars,
                   chans, collectorVars, feeVars, thrown>>

PeerNext == PeerScoring

SpecPeer == PeerInit /\ [][PeerNext]_vars

(***************************************************************************)
(* getTimeRange, called by routing / forwardingHistory and                 *)
(* forwardingSummary, and the switch dustAnalysis carries in its place.    *)
(***************************************************************************)
\* A slip the time range claim must notice: a custom range that does not
\* start before its end replaced by the default window.
GetTimeRangeValidated(timeRange, now, customStart, customEnd) ==
    IF timeRange = "1h" THEN [startTime |-> now - 3600, endTime |-> now]
    ELSE IF timeRange = "7d" THEN [startTime |-> now - 604800, endTime |-> now]
    ELSE IF timeRange = "30d" THEN [startTime |-> now - 2592000, endTime |-> now]
    ELSE IF timeRange = "custom" /\ customStart < customEnd
            THEN [startTime |-> customStart, endTime |-> customEnd]
    ELSE [startTime |-> now - 86400, endTime |-> now]

\* getTimeRange: customStart and customEnd are the startTime and endTime
\* parameters, which only the 'custom' case reads.
GetTimeRange(timeRange, now, customStart, customEnd) ==
    IF timeRange = "1h" THEN [startTime |-> now - 3600, endTime |-> now]
    ELSE IF timeRange = "24h" THEN [startTime |-> now - 86400, endTime |-> now]
    ELSE IF timeRange = "7d" THEN [startTime |-> now - 604800, endTime |-> now]
    ELSE IF timeRange = "30d" THEN [startTime |-> now - 2592000, endTime |-> now]
    ELSE IF timeRange = "custom"
            THEN [startTime |-> customStart, endTime |-> customEnd]
    ELSE [startTime |-> now - 86400, endTime |-> now]

\* The switch of dustAnalysis, which has no 'custom' case, and the end of
\* the range it passes on, which is now.
DustTimeRange(dustTimeRange, now) ==
    IF dustTimeRange = "1h" THEN [startTime |-> now - 3600, endTime |-> now]
    ELSE IF dustTimeRange = "24h"
            THEN [startTime |-> now - 86400, endTime |-> now]
    ELSE IF dustTimeRange = "7d"
            THEN [startTime |-> now - 604800, endTime |-> now]
    ELSE IF dustTimeRange = "30d"
            THEN [startTime |-> now - 2592000, endTime |-> now]
    ELSE [startTime |-> now - 86400, endTime |-> now]

\* The values of the timeRange parameter: the five options and a token
\* that is none of them.
TimeRangeTokens == {"1h", "24h", "7d", "30d", "custom", "90d"}

\* Values of Math.floor(Date.now() / 1000).
Clocks == {1700000000, 1800000000}

\* Values of the startTime and endTime parameters (default 0).
CustomTimes == {0, 1699990000, 1700000000}

TimeInit ==
    /\ pc = "start"
    /\ \/ /\ op = "forwardingSummary"
          /\ params \in [timeRange : TimeRangeTokens,
                         startTime : CustomTimes, endTime : CustomTimes]
       \/ /\ op = "dustAnalysis"
          /\ params \in [dustTimeRange : TimeRangeTokens,
                         dustAnalysisThresholdSat : {100},
                         suspiciousRateThreshold : {50}]
    /\ clock \in Clocks
    /\ chans = <<>>
    /\ allEvents = <<>>
    /\ indexOffset = 0
    /\ hasMore = FALSE
    /\ sent = <<>>
    /\ recv = <<>>
    /\ suggestions = <<>>
    /\ applied = <<>>
    /\ range = <<>>
    /\ utxos = <<>>
    /\ leases = <<>>
    /\ frozenResults = <<>>
    /\ items = 1
    /\ itemIndex = 1
    /\ continueOnFail \in BOOLEAN
    /\ returnData = <<>>
    /\ thrown = FALSE

\* forwardingSummary: const { startTime, endTime } = getTimeRange(this, i),
\* and getAllForwardingEvents is entered with them.
ResolveTimeRange ==
    /\ pc = "start"
    /\ op = "forwardingSummary"
    /\ range' = <<GetTimeRange(params.timeRange, clock,
                               params.startTime, params.endTime)>>
    /\ hasMore' = TRUE
    /\ pc' = "loop"
    /\ UNCHANGED <<inputVars, walletVars, chans, allEvents, indexOffset, sent,
                   recv, feeVars, returnData, thrown>>

\* dustAnalysis: the switch on dustTimeRange, and getAllForwardingEvents is
\* entered with (startTime, now).
ResolveDustTimeRange ==
    /\ pc = "start"
    /\ op = "dustAnalysis"
    /\ range' = <<DustTimeRange(params.dustTimeRange, clock)>>
    /\ hasMore' = TRUE
    /\ pc' = "loop"
    /\ UNCHANGED <<inputVars, walletVars, chans, allEvents, indexOffset, sent,
                   recv, feeVars, returnData, thrown>>

TimeNext ==
    \/ ResolveTimeRange
    \/ ResolveDustTimeRange

SpecTime == TimeInit /\ [][TimeNext]_vars

(***************************************************************************)
(* execute for one item of any of the eight analysis operations: the       *)
(* else-if chain on `operation` runs the branch of the item's operation    *)
(* and no other.                                                           *)
(***************************************************************************)
AnalysisInit ==
    \/ BalanceInit
    \/ HtlcInit
    \/ SummaryInit
    \/ DustInit
    \/ PeerInit
    \/ RebalanceInit
    \/ FeeInit
    \/ WalletInit

AnalysisNext ==
    \/ op = "balanceMonitor" /\ BalanceNext
    \/ op = "htlcMonitor" /\ HtlcNext
    \/ op = "forwardingSummary" /\ SummaryNext
    \/ op = "dustAnalysis" /\ DustNext
    \/ op = "peerScoring" /\ PeerNext
    \/ op = "suggestRebalances" /\ RebalanceNext
    \/ op = "autoFeeSuggestion" /\ FeeNext
    \/ op = "detectDustUtxos" /\ WalletNext

SpecAnalysis == AnalysisInit /\ [][AnalysisNext]_vars

(***************************************************************************)
(* getAllForwardingEvents against an event source that answers every       *)
(* request, holds finitely many events, and answers a request at offset o  *)
(* with events beyond o: a full page ends at an index of at least          *)
(* o + pageSize, which it reports as last_offset_index; a page is short    *)
(* when fewer than pageSize events are left (or the source has fewer).     *)
(***************************************************************************)
\* The index of the last event the source can hold: one more than the
\* full pages the requests of the model can carry.
MaxSourceIndex == pageSize * (MaxRequests - 1) + 1

\* The responses of the source to a request at the offset.
SourceResponses(offset) ==
    {[forwarding_events |-> <<page>>, last_offset_index |-> <<last>>] :
        page \in [1..pageSize -> CollectEvents],
        last \in (offset + pageSize)..MaxSourceIndex}
    \cup
    {[forwarding_events |-> fe, last_offset_index |-> <<offset + n>>] :
        fe \in {<<>>} \cup {<<page>> : page \in SeqsUpTo(CollectEvents, pageSize - 1)},
        n \in 0..(pageSize - 1)}

\* The source answers the request in flight.
SourceAnswers ==
    \E resp \in SourceResponses(sent[Len(sent)]) : LoopBody(resp)

SourceNext ==
    \/ SendPageRequest
    \/ pc = "await" /\ SourceAnswers
    \/ ForwardingSummary

\* The loop runs on when it can (the event loop resumes an awaiting
\* function whose promise has settled), and the source answers.
SpecSource ==
    /\ CollectInit
    /\ [][SourceNext]_vars
    /\ WF_vars(SendPageRequest)
    /\ WF_vars(pc = "await" /\ SourceAnswers)

(***************************************************************************)
(* LightningNetwork.execute over all its input items, as in                *)
(* src/nodes/LightningNetwork/LightningNetwork.node.ts: the operation is   *)
(* read once, and every item is one request to LND inside a try block.     *)
(* The loop of src/credentials/LndApi.credentials.ts has the same frame    *)
(* (for, try, push, catch, continue or throw) around its operations.       *)
(***************************************************************************)
\* The most input items of the model.
MaxItems == 3

\* The options of the node's operation parameter.
NodeOperations == {"getInfo", "countForwarding", "createInvoice", "sendPayment"}

\* The endpoint the operation calls.
Endpoint(operation) ==
    CASE operation = "getInfo" -> "/v1/getinfo"
      [] operation = "countForwarding" -> "/v1/switch"
      [] operation = "createInvoice" -> "/v1/invoices"
      [] operation = "sendPayment" -> "/v2/router/send"

\* The bodies LND answers with, parsed: a JSON object.  The one of
\* /v1/switch is kept by its forwarding_events, the others by the endpoint
\* they come from.
LndResponses(operation) ==
    IF operation = "countForwarding"
       THEN {[forwarding_events |-> fe] :
                fe \in {<<>>} \cup {<<p>> : p \in SeqsUpTo(CollectEvents, 1)}}
       ELSE {[endpoint |-> Endpoint(operation)]}

\* The messages lndRequest rejects with.
LndErrors == {"LND API error", "Error parsing response", "Connection error to LND"}

\* responseData of the operation, given LND's answer.
\* countForwarding: {count: forwarding_events?.length || 0, forwarding_events:
\* forwarding_events || []} (start_time and end_time are left out).
ResponseData(operation, resp) ==
    IF operation = "countForwarding"
       THEN [count |-> Len(EventsOf(resp)), forwarding_events |-> EventsOf(resp)]
       ELSE resp

\* What execute's loop leaves alone.
loopFrame == <<op, params, clock, items, continueOnFail, chans, collectorVars,
               feeVars, range, walletVars>>

ExecuteInit ==
    /\ op \in NodeOperations
    /\ pc = "item"
    /\ params = <<>>
    /\ chans = <<>>
    /\ allEvents = <<>>
    /\ indexOffset = 0
    /\ hasMore = FALSE
    /\ sent = <<>>
    /\ recv = <<>>
    /\ suggestions = <<>>
    /\ applied = <<>>
    /\ clock = 0
    /\ range = <<>>
    /\ utxos = <<>>
    /\ leases = <<>>
    /\ frozenResults = <<>>
    /\ items \in 0..MaxItems
    /\ itemIndex = 1
    /\ continueOnFail \in BOOLEAN
    /\ returnData = <<>>
    /\ thrown = FALSE

\* The request of item i resolves: its responseData is pushed, and on to
\* the next item.
ItemResolves ==
    /\ pc = "item"
    /\ itemIndex <= items
    /\ \E resp \in LndResponses(op) :
          returnData' = Append(returnData, ReportEntry(ResponseData(op, resp)))
    /\ itemIndex' = itemIndex + 1
    /\ UNCHANGED <<loopFrame, pc, thrown>>

\* A slip the claim on failures must notice: the try block put around the
\* loop, so that a failure of one item, with continueOnFail(), leaves an
\* error entry and ends the loop.
ItemRejectsEndingLoop ==
    /\ pc = "item"
    /\ itemIndex <= items
    /\ \E msg \in LndErrors :
          IF continueOnFail
             THEN /\ returnData' = Append(returnData, ErrorEntry(msg))
                  /\ pc' = "returned"
                  /\ thrown' = FALSE
             ELSE /\ returnData' = returnData
                  /\ pc' = "done"
                  /\ thrown' = TRUE
    /\ UNCHANGED <<loopFrame, itemIndex>>

\* The request of item i rejects: the catch clause.  With continueOnFail()
\* an error entry for item i is pushed and the loop continues; otherwise
\* the error is rethrown and execute rejects.
ItemRejects ==
    /\ pc = "item"
    /\ itemIndex <= items
    /\ \E msg \in LndErrors :
          IF continueOnFail
             THEN /\ returnData' = Append(returnData, ErrorEntry(msg))
                  /\ itemIndex' = itemIndex + 1
                  /\ pc' = pc
                  /\ thrown' = FALSE
             ELSE /\ returnData' = returnData
                  /\ itemIndex' = itemIndex
                  /\ pc' = "done"
                  /\ thrown' = TRUE
    /\ UNCHANGED loopFrame

\* i = items.length: return [returnData]
ExecuteReturns ==
    /\ pc = "item"
    /\ itemIndex > items
    /\ pc' = "returned"
    /\ UNCHANGED <<loopFrame, itemIndex, returnData, thrown>>

ExecuteNext ==
    \/ ItemResolves
    \/ ItemRejects
    \/ ExecuteReturns

SpecExecute == ExecuteInit /\ [][ExecuteNext]_vars

(***************************************************************************)
(* Properties of the collector (specification SpecCollect).                *)
(***************************************************************************)
RECURSIVE FlattenPages(_)
FlattenPages(resps) ==
    IF resps = <<>>
       THEN <<>>
       ELSE FlattenPages(SubSeq(resps, 1, Len(resps) - 1))
               \o (IF resps[Len(resps)].forwarding_events = <<>>
                      THEN <<>>
                      ELSE resps[Len(resps)].forwarding_events[1])

PageLen(k) ==
    IF recv[k].forwarding_events = <<>>
       THEN 0
       ELSE Len(recv[k].forwarding_events[1])

\* The item ended with a report (not with an error entry, not by a throw).
Reported ==
    /\ pc = "done"
    /\ ~thrown
    /\ Len(returnData) = 1
    /\ ~IsError(returnData[1])

\* A page request was rejected: it was sent and its response never came.
FetchFailed == pc # "await" /\ Len(sent) > Len(recv)

\* C3: the collector goes on exactly while the pages are full: every page
\* before the last one received holds at least pageSize events, the loop
\* flag is down exactly when the last page received is short, the events
\* held are the received pages concatenated in order of arrival, and the
\* report is made of exactly those events, after a short page and no
\* sooner.
C3_StopsOnFirstShortPage ==
    /\ allEvents = FlattenPages(recv)
    /\ \A k \in 1..(Len(recv) - 1) : PageLen(k) >= pageSize
    /\ hasMore <=> (recv = <<>> \/ PageLen(Len(recv)) >= pageSize)
    /\ Reported =>
          /\ PageLen(Len(recv)) < pageSize
          /\ Len(sent) = Len(recv)
          /\ returnData[1].json = ForwardingSummaryReport(FlattenPages(recv))

\* Three pages were needed, the first two full and different, and the
\* report counts the events of all three.
C3_Witness ==
    /\ Reported
    /\ Len(recv) = 3
    /\ PageLen(3) = 1
    /\ recv[1].forwarding_events # recv[2].forwarding_events
    /\ recv[1].forwarding_events[1][1] # recv[1].forwarding_events[1][2]
    /\ returnData[1].json.total_events = 2 * pageSize + 1

\* C4: the first request asks for offset 0, and every later one for the
\* last_offset_index of the response just before it (0 when that response
\* carries none), whatever the page size.
C4_OffsetFromPreviousResponse ==
    /\ Len(sent) >= 1 => sent[1] = 0
    /\ \A k \in 2..Len(sent) :
          IF recv[k - 1].last_offset_index = <<>>
             THEN sent[k] = 0
             ELSE sent[k] = recv[k - 1].last_offset_index[1]

\* The source reported 9 and then 5: the requests went to 0, 9 and 5, none
\* of them a page size after the one before.
C4_Witness ==
    /\ Len(sent) = 3
    /\ sent[2] = 9
    /\ sent[3] = 5
    /\ sent[2] # sent[1] + pageSize
    /\ sent[3] # sent[2] + pageSize

\* C5: once a page request is rejected the item is over: no request
\* follows, and the output holds no report, only the error entry, or
\* nothing at all when execute rethrows.
C5_FailedFetchAbortsCollection ==
    FetchFailed =>
        /\ pc = "done"
        /\ \A k \in 1..Len(returnData) : IsError(returnData[k])
        /\ thrown \/ returnData = <<ErrorEntry("Connection error to LND")>>

\* The second request failed after a full first page was received.
C5_Witness ==
    /\ FetchFailed
    /\ Len(recv) = 1
    /\ Len(allEvents) = pageSize
    /\ ~thrown

\* C6: a first page of fewer than pageSize events ends the collection
\* after one request; a first page of pageSize events followed by a
\* shorter one ends it after exactly two, with the events of both; and no
\* report is made after a full first page alone.
C6_RequestCount ==
    /\ (Len(recv) >= 1 /\ PageLen(1) < pageSize) => Len(sent) = 1
    /\ (Len(recv) >= 2 /\ PageLen(1) = pageSize /\ PageLen(2) < pageSize) =>
          /\ Len(sent) = 2
          /\ allEvents = recv[1].forwarding_events[1]
                            \o (IF recv[2].forwarding_events = <<>>
                                   THEN <<>>
                                   ELSE recv[2].forwarding_events[1])
    /\ (Reported /\ PageLen(1) >= pageSize) => Len(sent) >= 2

\* The source held exactly pageSize events: a full page, then an empty one,
\* and the report counts pageSize events after two requests.
C6_Witness ==
    /\ Reported
    /\ Len(sent) = 2
    /\ PageLen(1) = pageSize
    /\ recv[2].forwarding_events = << <<>> >>
    /\ returnData[1].json.total_events = pageSize

(***************************************************************************)
(* Properties of the forwarding summary (specification SpecSummary).       *)
(***************************************************************************)
\* C10: the fee_earned_msat of the per-channel entries add up to the fees
\* of the input events, and total_fee_earned_msat is that same sum, events
\* without a channel id included (they are booked under 'unknown').
C10_FeeConservation ==
    Reported =>
        LET report == returnData[1].json
            summary == report.channel_summary
            inputFee == SumSeq([k \in 1..Len(allEvents) |->
                                   IF allEvents[k].fee_msat = <<>>
                                      THEN 0
                                      ELSE allEvents[k].fee_msat[1]])
        IN  /\ SumSeq([k \in 1..Len(summary) |-> summary[k].fee_earned_msat])
                  = inputFee
            /\ report.total_fee_earned_msat = inputFee

\* Fees were earned under 'unknown' and, more than once, on a known channel.
C10_Witness ==
    /\ Reported
    /\ Len(allEvents) = 3
    /\ \E k \in 1..Len(returnData[1].json.channel_summary) :
          LET entry == returnData[1].json.channel_summary[k]
          IN  entry.chan_id = "unknown" /\ entry.fee_earned_msat > 0
    /\ \E k \in 1..Len(returnData[1].json.channel_summary) :
          LET entry == returnData[1].json.channel_summary[k]
          IN  entry.chan_id # "unknown" /\ entry.forwards_out = 2
                 /\ entry.fee_earned_msat > 1500


(***************************************************************************)
(* Properties of the balance monitor (specification SpecBalance).          *)
(***************************************************************************)
Abs(x) == IF x < 0 THEN -x ELSE x

\* C7, as claimed: the status follows the two strict comparisons in order,
\* and a channel whose ratio equals the threshold or 100 - threshold is
\* never flagged.
C7_AsClaimed ==
    Reported =>
        \A k \in 1..Len(returnData[1].json.channels) :
            LET entry == returnData[1].json.channels[k]
                ratio == entry.local_ratio_pct
                threshold == params.imbalanceThreshold
            IN  /\ entry.status = "depleted_local" <=> ratio < threshold
                /\ entry.status = "depleted_remote" <=>
                      (~(ratio < threshold) /\ ratio > 100 - threshold)
                /\ entry.status = "balanced" <=>
                      (~(ratio < threshold) /\ ~(ratio > 100 - threshold))
                /\ (ratio = threshold \/ ratio = 100 - threshold) =>
                      (entry.status = "balanced" /\ ~entry.needs_rebalance)

\* C7, amended: the status follows the two strict comparisons in order; a
\* ratio equal to the threshold is not depleted_local and a ratio equal to
\* 100 - threshold is not depleted_remote; such a channel is left unflagged
\* when the threshold is at most 50 (above 50 the two ranges overlap and
\* the other comparison flags it).
C7_StrictThresholds ==
    Reported =>
        \A k \in 1..Len(returnData[1].json.channels) :
            LET entry == returnData[1].json.channels[k]
                ratio == entry.local_ratio_pct
                threshold == params.imbalanceThreshold
            IN  /\ entry.status = "depleted_local" <=> ratio < threshold
                /\ entry.status = "depleted_remote" <=>
                      (~(ratio < threshold) /\ ratio > 100 - threshold)
                /\ entry.status = "balanced" <=>
                      (~(ratio < threshold) /\ ~(ratio > 100 - threshold))
                /\ entry.needs_rebalance <=> entry.status # "balanced"
                /\ ratio = threshold => entry.status # "depleted_local"
                /\ ratio = 100 - threshold => entry.status # "depleted_remote"
                /\ (threshold <= 50
                      /\ (ratio = threshold \/ ratio = 100 - threshold)) =>
                      (entry.status = "balanced" /\ ~entry.needs_rebalance)

\* With threshold 20, a channel at exactly 20% and one at exactly 80% are
\* both reported balanced.
C7_Witness ==
    /\ Reported
    /\ params.imbalanceThreshold = 20
    /\ Len(returnData[1].json.channels) = 2
    /\ returnData[1].json.channels[1].local_ratio_pct = 20
    /\ returnData[1].json.channels[1].status = "balanced"
    /\ returnData[1].json.channels[2].local_ratio_pct = 80
    /\ returnData[1].json.channels[2].status = "balanced"
    /\ returnData[1].json.imbalanced_channels = 0

\* The input of the end-to-end example: one channel of capacity 1,000,000
\* holding 200,000 locally, threshold 20.
C8_Example ==
    /\ Reported
    /\ params.imbalanceThreshold = 20
    /\ Len(chans) = 1
    /\ chans[1].capacity = <<1000000>>
    /\ chans[1].local_balance = <<200000>>

\* C8, as claimed: the example is reported with ratio 20 and status
\* depleted_local.
C8_AsClaimed ==
    C8_Example =>
        /\ returnData[1].json.channels[1].local_ratio_pct = 20
        /\ returnData[1].json.channels[1].status = "depleted_local"

\* C8, amended: the example is reported with ratio 20 and status balanced,
\* and raises no alert (20 < 20 is false, and so is 20 > 80).
C8_ExampleIsBalanced ==
    C8_Example =>
        /\ Len(returnData[1].json.channels) = 1
        /\ returnData[1].json.channels[1].local_ratio_pct = 20
        /\ returnData[1].json.channels[1].status = "balanced"
        /\ ~returnData[1].json.channels[1].needs_rebalance
        /\ returnData[1].json.alerts = <<>>
        /\ returnData[1].json.balanced_channels = 1

C8_Witness ==
    /\ C8_Example
    /\ returnData[1].json.channels[1].capacity_sat = 1000000
    /\ returnData[1].json.channels[1].local_balance_sat = 200000
    /\ returnData[1].json.channels[1].status = "balanced"

\* C9: local_ratio_pct is 0 when the capacity is 0 (or missing), otherwise
\* an integer nearest to 100 * local_balance / capacity, and it lies in
\* 0..100 whenever 0 <= local_balance <= capacity.
C9_RatioRange ==
    Reported =>
        /\ Len(returnData[1].json.channels) = Len(chans)
        /\ \A k \in 1..Len(chans) :
              LET ratio == returnData[1].json.channels[k].local_ratio_pct
                  cap == IF chans[k].capacity = <<>>
                            THEN 0 ELSE chans[k].capacity[1]
                  local == IF chans[k].local_balance = <<>>
                              THEN 0 ELSE chans[k].local_balance[1]
              IN  /\ ratio \in Int
                  /\ cap = 0 => ratio = 0
                  /\ cap > 0 => 2 * Abs(100 * local - ratio * cap) <= cap
                  /\ (0 <= local /\ local <= cap) => (0 <= ratio /\ ratio <= 100)

\* A channel of capacity 0 with a positive local balance is reported at 0,
\* next to one whose 19.9999% is rounded up to 20.
C9_Witness ==
    /\ Reported
    /\ Len(chans) = 2
    /\ chans[1].capacity = <<0>>
    /\ chans[1].local_balance = <<5>>
    /\ returnData[1].json.channels[1].local_ratio_pct = 0
    /\ chans[2].local_balance = <<199999>>
    /\ returnData[1].json.channels[2].local_ratio_pct = 20


(***************************************************************************)
(* Properties of the HTLC monitor (specification SpecHtlc).                *)
(***************************************************************************)
\* C1, as claimed: the risk level is the first that matches of critical
\* (count >= 483 * 0.9), warning (count >= htlcWarningThreshold) and
\* dust_attack_suspected (dust count > count * 0.5 and count > 10), else
\* normal; so a critical channel with a dust majority is critical.
C1_AsClaimed ==
    Reported =>
        \A k \in 1..Len(returnData[1].json.channels) :
            LET entry == returnData[1].json.channels[k]
                count == entry.pending_htlc_count
                dustCount == entry.dust_htlc_count
            IN  entry.risk_level =
                   IF 10 * count >= 9 * 483 THEN "critical"
                   ELSE IF count >= params.htlcWarningThreshold THEN "warning"
                   ELSE IF 2 * dustCount > count /\ count > 10
                      THEN "dust_attack_suspected"
                   ELSE "normal"

\* C1, amended: the three tests are applied one after the other and each
\* that holds overwrites the level, so the last one that holds wins: the
\* level is dust_attack_suspected if dust count > count * 0.5 and
\* count > 10; else critical if count >= 483 * 0.9; else warning if
\* count >= htlcWarningThreshold; else normal.  A critical channel with a
\* dust majority is reported as dust_attack_suspected.
C1_DustAttackOverrides ==
    Reported =>
        \A k \in 1..Len(returnData[1].json.channels) :
            LET entry == returnData[1].json.channels[k]
                count == entry.pending_htlc_count
                dustCount == entry.dust_htlc_count
            IN  /\ count = Len(chans[k].pending_htlcs)
                /\ dustCount =
                      Cardinality({j \in 1..count :
                          \/ chans[k].pending_htlcs[j].amount = <<>>
                          \/ chans[k].pending_htlcs[j].amount[1]
                                <= params.dustThresholdSat})
                /\ entry.risk_level =
                      IF 2 * dustCount > count /\ count > 10
                         THEN "dust_attack_suspected"
                      ELSE IF 10 * count >= 9 * 483 THEN "critical"
                      ELSE IF count >= params.htlcWarningThreshold
                         THEN "warning"
                      ELSE "normal"
                /\ (10 * count >= 9 * 483 /\ 2 * dustCount > count) =>
                      entry.risk_level = "dust_attack_suspected"

\* Two channels at 435 pending HTLCs, past 483 * 0.9: the one with 218 dust
\* HTLCs is reported as a suspected dust attack, the one with 217 as
\* critical.
C1_Witness ==
    /\ Reported
    /\ Len(returnData[1].json.channels) = 2
    /\ returnData[1].json.channels[1].pending_htlc_count = 435
    /\ returnData[1].json.channels[1].dust_htlc_count = 218
    /\ returnData[1].json.channels[1].risk_level = "dust_attack_suspected"
    /\ returnData[1].json.channels[2].pending_htlc_count = 435
    /\ returnData[1].json.channels[2].dust_htlc_count = 217
    /\ returnData[1].json.channels[2].risk_level = "critical"


(***************************************************************************)
(* Properties of the fee suggestion (specification SpecFee).               *)
(***************************************************************************)
\* C2: when the suggestions are applied and the policy update of a channel
\* that is not the last one fails, the operation still attempts the update
\* of every channel and ends with its report.
C2_AsClaimed ==
    (/\ pc = "done"
     /\ params.applySuggestions
     /\ \E k \in 1..Len(applied) :
           applied[k].outcome = "failed" /\ k < Len(suggestions)) =>
        /\ Len(applied) = Len(suggestions)
        /\ Reported

\* The policy updates are the calls for the first suggestions, in order,
\* and all but the last one issued have succeeded.
AppliedInOrder ==
    /\ Len(applied) <= Len(suggestions)
    /\ \A k \in 1..Len(applied) :
          /\ applied[k].chan_point = suggestions[k].channel_point
          /\ applied[k].fee_rate_ppm = suggestions[k].suggested_fee_rate_ppm
          /\ applied[k].base_fee_msat = suggestions[k].suggested_base_fee_msat
          /\ k < Len(applied) => applied[k].outcome = "ok"
          /\ applied[k].outcome = "pending" => pc = "await_policy"
          /\ applied[k].outcome = "failed" => pc = "done"
          /\ applied[k].outcome \in {"pending", "ok", "failed"}

\* A step issues at most one further update, and only when none is
\* pending; it leaves every update that has succeeded as it is.
AppliedStays ==
    /\ Len(applied') \in {Len(applied), Len(applied) + 1}
    /\ Len(applied') = Len(applied) + 1 =>
          \A k \in 1..Len(applied) : applied[k].outcome = "ok"
    /\ \A k \in 1..Len(applied) :
          applied[k].outcome = "ok" => applied'[k] = applied[k]

\* C20: the policy updates are issued in suggestion order, one at a time,
\* each after the one before it has completed; when an update fails, the
\* updates before it have succeeded and stay applied, and no further call
\* of any kind is issued.
C20_SequentialNoRollback == []AppliedInOrder /\ [][AppliedStays]_vars

\* The second of two policy updates failed after the first had succeeded:
\* the first stays applied and nothing else was issued.
C20_Witness ==
    /\ pc = "done"
    /\ params.applySuggestions
    /\ Len(suggestions) = 2
    /\ Len(applied) = 2
    /\ applied[1].outcome = "ok"
    /\ applied[2].outcome = "failed"
    /\ applied[1].chan_point # applied[2].chan_point


(***************************************************************************)
(* Properties of the dust analysis (specification SpecDust).               *)
(***************************************************************************)
\* The sum of the fees of the events at the given positions.
FeeOver(events, positions) ==
    SumSeq([k \in 1..Len(events) |->
               IF k \in positions
                  THEN (IF events[k].fee_msat = <<>>
                           THEN 0 ELSE events[k].fee_msat[1])
                  ELSE 0])

\* The positions of the events whose outbound amount, in whole satoshis, is
\* at most the threshold.
AtMostThreshold(events, threshold) ==
    {k \in 1..Len(events) :
        (IF events[k].amt_out_msat = <<>>
            THEN 0 ELSE events[k].amt_out_msat[1]) \div 1000 <= threshold}

\* C11: the events of at most the dust threshold are exactly the dust
\* partition and the others exactly the normal partition: the dust count is
\* the number of the former, dust and normal counts add up to the number of
\* collected events, the dust fee is the fee of the former, the normal fee
\* the fee of the latter, and the two fees add up to the fee of all events.
C11_DustPartition ==
    Reported =>
        LET json == returnData[1].json
            threshold == params.dustAnalysisThresholdSat
            all == 1..Len(allEvents)
            small == AtMostThreshold(allEvents, threshold)
            dust == {k \in all : IsDustEvent(allEvents[k], threshold)}
            normal == {k \in all : IsNormalEvent(allEvents[k], threshold)}
        IN  /\ dust = small
            /\ normal = all \ small
            /\ json.total_forwards = Len(allEvents)
            /\ json.total_dust_forwards = Cardinality(small)
            /\ json.total_dust_forwards + Cardinality(normal)
                  = json.total_forwards
            /\ json.total_dust_fee_earned_msat = FeeOver(allEvents, small)
            /\ json.total_normal_fee_earned_msat
                  = FeeOver(allEvents, all \ small)
            /\ json.total_dust_fee_earned_msat
                  + json.total_normal_fee_earned_msat = FeeOver(allEvents, all)

\* A report over three events: one of exactly 100 sat and one of 100.999
\* sat, both dust, and one of 101 sat, normal, each partition with its fee.
C11_Witness ==
    /\ Reported
    /\ Len(allEvents) = 3
    /\ {allEvents[k].amt_out_msat : k \in 1..3}
          = {<<100000>>, <<100999>>, <<101000>>}
    /\ returnData[1].json.total_dust_forwards = 2
    /\ returnData[1].json.total_dust_fee_earned_msat = 30
    /\ returnData[1].json.total_normal_fee_earned_msat = 3000

\* The ordered pair of an event, a missing id reading 'unknown'.
RouteOf(e) ==
    <<IF e.chan_id_in = "" THEN "unknown" ELSE e.chan_id_in,
      IF e.chan_id_out = "" THEN "unknown" ELSE e.chan_id_out>>

\* The number of events of at most the threshold on a route.
DustOnRoute(events, threshold, route) ==
    Cardinality({k \in AtMostThreshold(events, threshold) :
                    RouteOf(events[k]) = route})

\* The entries of suspicious_routes for a route.
RouteEntries(route) ==
    {k \in 1..Len(returnData[1].json.suspicious_routes) :
        LET r == returnData[1].json.suspicious_routes[k]
        IN  <<r.chan_id_in, r.chan_id_out>> = route}

\* C12: a route that carried dust is listed in suspicious_routes, once and
\* with suspicious = true, exactly when the number of its dust events is at
\* least the rate threshold, and its dust_forward_count is that number; a
\* route without dust events is never listed; the 500 events of which 300
\* are dust on one route give, with threshold 50, that route alone with
\* dust_forward_count 300.
C12_SuspiciousRoutes ==
    Reported =>
        LET json == returnData[1].json
            threshold == params.dustAnalysisThresholdSat
            rate == params.suspiciousRateThreshold
            routes == {RouteOf(allEvents[k]) : k \in 1..Len(allEvents)}
        IN  /\ \A route \in routes :
                  LET n == DustOnRoute(allEvents, threshold, route)
                  IN  /\ Cardinality(RouteEntries(route))
                            = (IF n >= 1 /\ n >= rate THEN 1 ELSE 0)
                      /\ \A k \in RouteEntries(route) :
                            /\ json.suspicious_routes[k].suspicious
                            /\ json.suspicious_routes[k].dust_forward_count = n
            /\ \A k \in 1..Len(json.suspicious_routes) :
                  <<json.suspicious_routes[k].chan_id_in,
                    json.suspicious_routes[k].chan_id_out>> \in routes
            /\ json.suspicious_routes_count = Len(json.suspicious_routes)
            /\ (allEvents = ManyDustEvents /\ rate = 50) =>
                  /\ Len(json.suspicious_routes) = 1
                  /\ json.suspicious_routes[1].route = "chanA->chanB"
                  /\ json.suspicious_routes[1].dust_forward_count = 300

\* The 500 events with rate threshold 50: the route chanA->chanB is
\* reported with 300 dust forwards.
C12_Witness ==
    /\ Reported
    /\ Len(allEvents) = 500
    /\ Cardinality(AtMostThreshold(allEvents, 100)) = 300
    /\ params.suspiciousRateThreshold = 50
    /\ returnData[1].json.suspicious_routes_count = 1
    /\ returnData[1].json.suspicious_routes[1].suspicious
    /\ returnData[1].json.suspicious_routes[1].dust_forward_count = 300


(***************************************************************************)
(* Properties of the dust UTXO detection (specification SpecWallet).       *)
(***************************************************************************)
\* The positions of the UTXOs of at most the threshold, a missing amount
\* reading 0.
SmallUtxos ==
    {k \in 1..Len(utxos) :
        (IF utxos[k].amount_sat = <<>> THEN 0 ELSE utxos[k].amount_sat[1])
            <= params.utxoDustThreshold}

\* The k-th UTXO of at most the threshold, in list order.
SmallUtxo(k) ==
    utxos[CHOOSE p \in SmallUtxos :
             Cardinality({q \in SmallUtxos : q < p}) = k - 1]

\* frozen_results of the report, a missing list reading as the empty one.
FrozenResultsReported ==
    IF returnData[1].json.frozen_results = <<>>
       THEN <<>>
       ELSE returnData[1].json.frozen_results[1]

\* C13: the leases are requested for the dust UTXOs in list order, one at
\* a time and whatever became of the earlier ones; each finished lease
\* left one entry for its UTXO, 'frozen' exactly when it succeeded and
\* 'freeze_failed' otherwise; once a lease was requested the item ends
\* with its report, never with an error, and the report with auto-freeze
\* on lists exactly one entry per dust UTXO.
C13_FreezeEveryDustUtxo ==
    /\ Len(leases) <= Cardinality(SmallUtxos)
    /\ \A k \in 1..Len(leases) :
          /\ leases[k].outpoint.txid = SmallUtxo(k).outpoint.txid_str
          /\ leases[k].outpoint.index = SmallUtxo(k).outpoint.output_index
          /\ leases[k].outcome = "pending" =>
                (k = Len(leases) /\ pc = "await_lease")
    /\ Len(frozenResults)
          = Len(leases) - (IF pc = "await_lease" THEN 1 ELSE 0)
    /\ \A k \in 1..Len(frozenResults) :
          /\ frozenResults[k].outpoint = leases[k].outpoint
          /\ frozenResults[k].status = "frozen" <=> leases[k].outcome = "ok"
          /\ frozenResults[k].status = "freeze_failed"
                <=> leases[k].outcome = "failed"
    /\ (pc = "done" /\ leases # <<>>) => Reported
    /\ (Reported /\ params.autoFreezeDust) =>
          /\ Len(leases) = Cardinality(SmallUtxos)
          /\ FrozenResultsReported = frozenResults
          /\ Len(FrozenResultsReported) = returnData[1].json.dust_utxos_count
    /\ (Reported /\ ~params.autoFreezeDust) =>
          (leases = <<>> /\ FrozenResultsReported = <<>>)

\* Three dust UTXOs whose leases failed, succeeded and failed: the report
\* lists freeze_failed, frozen, freeze_failed.
C13_Witness ==
    /\ Reported
    /\ params.autoFreezeDust
    /\ Cardinality(SmallUtxos) = 3
    /\ [k \in 1..3 |-> leases[k].outcome] = <<"failed", "ok", "failed">>
    /\ [k \in 1..3 |-> FrozenResultsReported[k].status]
          = <<"freeze_failed", "frozen", "freeze_failed">>

\* C14: a UTXO is dust exactly when its amount is at most the threshold and
\* normal otherwise, so the two counts add up to total_utxos; the alert is
\* 'No dust UTXOs detected' exactly when the dust count is 0; no UTXOs give
\* two counts of 0.
C14_UtxoPartition ==
    Reported =>
        LET json == returnData[1].json
        IN  /\ json.total_utxos = Len(utxos)
            /\ json.dust_utxos_count = Cardinality(SmallUtxos)
            /\ json.normal_utxos_count = Len(utxos) - Cardinality(SmallUtxos)
            /\ json.dust_utxos_count + json.normal_utxos_count
                  = json.total_utxos
            /\ json.alert.text = "No dust UTXOs detected"
                  <=> json.dust_utxos_count = 0
            /\ utxos = <<>> =>
                  /\ json.dust_utxos_count = 0
                  /\ json.normal_utxos_count = 0
                  /\ json.alert.text = "No dust UTXOs detected"

\* A report over a UTXO of exactly 1000 sat, one of 1001 sat and one
\* without amount: two dust, one normal.
C14_Witness ==
    /\ Reported
    /\ {utxos[k].amount_sat : k \in 1..Len(utxos)}
          = {<<1000>>, <<1001>>, <<>>}
    /\ Len(utxos) = 3
    /\ returnData[1].json.dust_utxos_count = 2
    /\ returnData[1].json.normal_utxos_count = 1
    /\ returnData[1].json.alert.n = 2


(***************************************************************************)
(* Properties of the rebalance planner (specification SpecRebalance).      *)
(***************************************************************************)
\* The sequence s can be read off the sequence t from left to right.
IsSubSeq(s, t) ==
    \E f \in [1..Len(s) -> 1..Len(t)] :
        /\ \A i \in 1..Len(s) : t[f[i]] = s[i]
        /\ \A i, j \in 1..Len(s) : i < j => f[i] < f[j]

\* C15: there are exactly min(|sources|, |sinks|) suggestions; the i-th
\* pairs the i-th source with the i-th sink, the lists being in channel
\* list order, and suggests the smaller of their two amounts to move, which
\* is at most either; the report carries both lists whole, unpaired
\* channels included.
C15_PositionalPairing ==
    Reported =>
        LET json == returnData[1].json
            pairs == json.suggested_rebalances
            smaller == IF Len(json.sources) <= Len(json.sinks)
                          THEN Len(json.sources) ELSE Len(json.sinks)
            ids == [k \in 1..Len(chans) |-> chans[k].chan_id]
        IN  /\ Len(pairs) = smaller
            /\ \A i \in 1..Len(pairs) :
                  LET from == json.sources[i].amount_to_move_sat
                      to == json.sinks[i].amount_to_move_sat
                  IN  /\ pairs[i].from_channel = json.sources[i].chan_id
                      /\ pairs[i].to_channel = json.sinks[i].chan_id
                      /\ pairs[i].suggested_amount_sat <= from
                      /\ pairs[i].suggested_amount_sat <= to
                      /\ pairs[i].suggested_amount_sat \in {from, to}
            /\ json.channels_need_outflow = Len(json.sources)
            /\ json.channels_need_inflow = Len(json.sinks)
            /\ IsSubSeq([k \in 1..Len(json.sources) |->
                            json.sources[k].chan_id], ids)
            /\ IsSubSeq([k \in 1..Len(json.sinks) |->
                            json.sinks[k].chan_id], ids)

\* Two sources (400,000 and 250,000 to move) and one sink (400,000 to
\* fill), the sink listed between them: one suggestion, from the first
\* source to the sink, and the second source reported unpaired.
C15_Witness ==
    /\ Reported
    /\ [k \in 1..Len(chans) |-> chans[k].chan_id] = <<"chanC", "chanB", "chanA">>
    /\ params.targetRatio = 50
    /\ Len(returnData[1].json.sources) = 2
    /\ Len(returnData[1].json.sinks) = 1
    /\ Len(returnData[1].json.suggested_rebalances) = 1
    /\ returnData[1].json.suggested_rebalances[1].from_channel = "chanC"
    /\ returnData[1].json.suggested_rebalances[1].to_channel = "chanB"
    /\ returnData[1].json.suggested_rebalances[1].suggested_amount_sat = 250000
    /\ returnData[1].json.sources[2].chan_id = "chanA"

\* The ratio the planner computes for a channel whose quotient is not half
\* way between two integers: the nearest integer, 0 without capacity.
NearestPct(c) ==
    LET cap == IF c.capacity = <<>> THEN 0 ELSE c.capacity[1]
        local == IF c.local_balance = <<>> THEN 0 ELSE c.local_balance[1]
    IN  IF cap > 0 THEN (200 * local + cap) \div (2 * cap) ELSE 0

\* The positions of the channels the planner has to list.
ToList ==
    {k \in 1..Len(chans) :
        /\ chans[k].active
        /\ Abs(NearestPct(chans[k]) - params.targetRatio)
              >= params.minDeviation}

\* C16, the listing: the channels listed are the active ones at least
\* minDeviation away from the target, each once, in sources or in sinks.
C16_Listing ==
    Reported =>
        LET json == returnData[1].json
            listed == json.sources \o json.sinks
        IN  /\ Len(listed) = Cardinality(ToList)
            /\ \A k \in ToList :
                  \E i \in 1..Len(listed) : listed[i].chan_id = chans[k].chan_id
            /\ \A i \in 1..Len(listed) :
                  /\ \E k \in ToList : listed[i].chan_id = chans[k].chan_id
                  /\ listed[i].deviation_pct >= params.minDeviation

\* C16: the listing above, every source holds more than target% of its
\* capacity locally, and every sink holds less.
C16_AsClaimed ==
    /\ C16_Listing
    /\ Reported =>
          LET json == returnData[1].json
          IN  /\ \A i \in 1..Len(json.sources) :
                    100 * json.sources[i].local_balance_sat
                        > json.sources[i].capacity_sat * params.targetRatio
              /\ \A i \in 1..Len(json.sinks) :
                    100 * json.sinks[i].local_balance_sat
                        < json.sinks[i].capacity_sat * params.targetRatio


(***************************************************************************)
(* Properties of the peer scoring (specification SpecPeer).                *)
(***************************************************************************)
\* The integers nearest to the uptime percentage of a channel (two of them
\* when it lies half way), 0 for a channel without lifetime.
NearestUptimePcts(c) ==
    LET up == IF c.uptime = <<>> THEN 0 ELSE c.uptime[1]
        life == IF c.lifetime = <<>> THEN 0 ELSE c.lifetime[1]
    IN  IF life > 0
           THEN {x \in 0..100 : Abs(200 * up - 2 * life * x) <= life}
           ELSE {0}

\* The positions of the channels of a peer.
ChannelsOfPeer(pk) == {k \in 1..Len(chans) : chans[k].remote_pubkey = pk}

\* avg is the mean, rounded half up, of one uptime percentage per channel
\* of the peer.
IsMeanUptime(pk, avg) ==
    LET mine == ChannelsOfPeer(pk)
        n == Cardinality(mine)
    IN  \E u \in [mine -> UNION {NearestUptimePcts(chans[k]) : k \in mine}] :
            /\ \A k \in mine : u[k] \in NearestUptimePcts(chans[k])
            /\ LET total == SumSeq([k \in 1..Len(chans) |->
                                       IF k \in mine THEN u[k] ELSE 0])
               IN  /\ 2 * n * avg - n <= 2 * total
                   /\ 2 * total < 2 * n * avg + n

\* C17: peer_scores holds exactly one entry per remote peer of the fetched
\* channels, so each entry has at least one channel, and an entry's
\* avg_uptime_pct is the plain mean, rounded, of the uptime percentages of
\* the peer's channels, whatever their capacities.
C17_OneEntryPerPeer ==
    Reported =>
        LET scores == returnData[1].json.peer_scores
            peers == {chans[k].remote_pubkey : k \in 1..Len(chans)}
        IN  /\ Len(scores) = Cardinality(peers)
            /\ returnData[1].json.total_peers_scored = Len(scores)
            /\ {scores[i].pubkey : i \in 1..Len(scores)} = peers
            /\ \A i \in 1..Len(scores) :
                  /\ scores[i].num_channels
                        = Cardinality(ChannelsOfPeer(scores[i].pubkey))
                  /\ scores[i].num_channels >= 1
                  /\ Len(scores[i].channels) = scores[i].num_channels
                  /\ IsMeanUptime(scores[i].pubkey, scores[i].avg_uptime_pct)

\* peerB's channel listed between the two of peerA, which are up 90% (of
\* 1,000,000 sat) and 12% (of 500,000 sat): two entries, peerA's with the
\* plain mean 51 (the capacity-weighted mean would be 64).
C17_Witness ==
    /\ Reported
    /\ [k \in 1..Len(chans) |-> chans[k].chan_id] = <<"chanA", "chanC", "chanB">>
    /\ Len(returnData[1].json.peer_scores) = 2
    /\ \E i \in 1..2 :
          /\ returnData[1].json.peer_scores[i].pubkey = "peerA"
          /\ returnData[1].json.peer_scores[i].channels = <<"chanA", "chanB">>
          /\ returnData[1].json.peer_scores[i].avg_uptime_pct = 51

\* C18: revenue_per_million_capacity is revenue / capacity * 1000 rounded,
\* 0 without capacity; the score is 0.5 of it plus 0.3 of avg_uptime_pct
\* plus 0.2 of the forwards capped at 1000, rounded, so that forwards above
\* 1000 count as 1000; and the entries come by descending score.
C18_ScoreFormula ==
    Reported =>
        LET scores == returnData[1].json.peer_scores
        IN  /\ \A i \in 1..Len(scores) :
                  LET p == scores[i]
                      capped == IF p.total_forwards <= 1000
                                   THEN p.total_forwards ELSE 1000
                  IN  /\ p.total_capacity_sat > 0 =>
                            Abs(2000 * p.total_revenue_msat
                                  - 2 * p.total_capacity_sat
                                      * p.revenue_per_million_capacity)
                                <= p.total_capacity_sat
                      /\ p.total_capacity_sat = 0 =>
                            p.revenue_per_million_capacity = 0
                      /\ Abs(10 * p.score
                               - (5 * p.revenue_per_million_capacity
                                    + 3 * p.avg_uptime_pct + 2 * capped)) <= 5
            /\ \A i, j \in 1..Len(scores) :
                  i < j => scores[i].score >= scores[j].score

\* 600 forwards between the two channels of peerA count 1200 forwards for
\* it: its score is round(40 * 0.5 + 51 * 0.3 + 1000 * 0.2) = 235, and it
\* is listed before peerB (score 15), whose channel came first.
C18_Witness ==
    /\ Reported
    /\ [k \in 1..Len(chans) |-> chans[k].chan_id] = <<"chanC", "chanA", "chanB">>
    /\ Len(allEvents) = 600
    /\ returnData[1].json.peer_scores[1].pubkey = "peerA"
    /\ returnData[1].json.peer_scores[1].total_forwards = 1200
    /\ returnData[1].json.peer_scores[1].revenue_per_million_capacity = 40
    /\ returnData[1].json.peer_scores[1].avg_uptime_pct = 51
    /\ returnData[1].json.peer_scores[1].score = 235
    /\ returnData[1].json.peer_scores[2].pubkey = "peerB"
    /\ returnData[1].json.peer_scores[2].score = 15


(***************************************************************************)
(* Properties of the time range (specification SpecTime).                  *)
(***************************************************************************)
\* The length in seconds of the window of a token that is not 'custom'.
WindowOf(token) ==
    IF token = "1h" THEN 3600
    ELSE IF token = "7d" THEN 604800
    ELSE IF token = "30d" THEN 2592000
    ELSE 86400

\* C19: the resolved range ends now and starts 3600, 86400, 604800 or
\* 2592000 seconds earlier for '1h', '24h', '7d' and '30d', and 86400
\* seconds earlier for a token that is none of the options, so that it
\* starts before it ends; for 'custom' it is the startTime and endTime
\* parameters as they are; the switch of dustAnalysis maps its tokens the
\* same way.
C19_TimeRange ==
    range # <<>> =>
        /\ op = "forwardingSummary" =>
              IF params.timeRange = "custom"
                 THEN /\ range[1].startTime = params.startTime
                      /\ range[1].endTime = params.endTime
                 ELSE /\ range[1].endTime = clock
                      /\ range[1].startTime
                            = clock - WindowOf(params.timeRange)
                      /\ range[1].startTime < range[1].endTime
        /\ op = "dustAnalysis" =>
              /\ range[1].endTime = clock
              /\ params.dustTimeRange # "custom" =>
                    range[1].startTime = clock - WindowOf(params.dustTimeRange)
              /\ range[1].startTime < range[1].endTime

\* A custom range that starts after its end, passed on as it is.
C19_Witness ==
    /\ op = "forwardingSummary"
    /\ pc = "loop"
    /\ params.timeRange = "custom"
    /\ params.startTime > params.endTime
    /\ range = <<[startTime |-> params.startTime, endTime |-> params.endTime]>>


(***************************************************************************)
(* The alert of the HTLC monitor (specification SpecHtlc).                 *)
(***************************************************************************)
\* The positions of the reported channels whose risk level is in levels.
ChannelsAtLevel(levels) ==
    {k \in 1..Len(returnData[1].json.channels) :
        returnData[1].json.channels[k].risk_level \in levels}

\* C21: the alert of the HTLC monitor is chosen by priority.  If at least
\* one reported channel has risk level dust_attack_suspected it is the
\* 'DUST ATTACK SUSPECTED' message, carrying the number of those channels;
\* otherwise, if at least one channel has a risk level other than normal,
\* it is the count message, carrying the number of those channels;
\* otherwise (in particular for no channels at all) it is
\* 'All channels healthy'.
C21_AlertPriority ==
    Reported =>
        LET report == returnData[1].json
            suspected == ChannelsAtLevel({"dust_attack_suspected"})
            atRisk == ChannelsAtLevel({"warning", "critical",
                                       "dust_attack_suspected"})
        IN  /\ suspected # {} =>
                  /\ report.alert.text = "DUST ATTACK SUSPECTED on N channel(s)!"
                  /\ report.alert.n = Cardinality(suspected)
            /\ (suspected = {} /\ atRisk # {}) =>
                  /\ report.alert.text = "N channel(s) have high HTLC count"
                  /\ report.alert.n = Cardinality(atRisk)
            /\ atRisk = {} => report.alert.text = "All channels healthy"
            /\ report.channels = <<>> =>
                  report.alert.text = "All channels healthy"

\* A report on two channels, one critical and one with a suspected dust
\* attack: both are at risk, and the alert is the dust attack message for
\* one channel.
C21_Witness ==
    /\ Reported
    /\ Len(returnData[1].json.channels) = 2
    /\ returnData[1].json.channels[1].risk_level = "critical"
    /\ returnData[1].json.channels[2].risk_level = "dust_attack_suspected"
    /\ returnData[1].json.channels_at_risk = 2
    /\ returnData[1].json.alert.text = "DUST ATTACK SUSPECTED on N channel(s)!"
    /\ returnData[1].json.alert.n = 1


(***************************************************************************)
(* Properties of the analysis operations together (specification           *)
(* SpecAnalysis).                                                          *)
(***************************************************************************)
\* The collections the item's operation computes with are all empty.
InputEmpty ==
    CASE op \in {"balanceMonitor", "htlcMonitor", "suggestRebalances",
                 "autoFeeSuggestion"} -> chans = <<>>
      [] op \in {"forwardingSummary", "dustAnalysis"} -> allEvents = <<>>
      [] op = "peerScoring" -> chans = <<>> /\ allEvents = <<>>
      [] op = "detectDustUtxos" -> utxos = <<>>

\* Every count and total of the report is 0 and every list of it is empty
\* (the dust UTXO report carries no frozen_results at all, and the fee
\* efficiency warning of the dust analysis is null).
ZeroReport(report) ==
    CASE op = "balanceMonitor" ->
            /\ report.total_channels = 0
            /\ report.balanced_channels = 0
            /\ report.imbalanced_channels = 0
            /\ report.channels = <<>>
            /\ report.alerts = <<>>
      [] op = "htlcMonitor" ->
            /\ report.total_channels = 0
            /\ report.total_pending_htlcs = 0
            /\ report.total_dust_htlcs = 0
            /\ report.channels_at_risk = 0
            /\ report.dust_attack_suspected = 0
            /\ report.channels = <<>>
            /\ report.alerts = <<>>
      [] op = "forwardingSummary" ->
            /\ report.total_events = 0
            /\ report.total_fee_earned_msat = 0
            /\ report.total_fee_earned_sat = 0
            /\ report.unique_channels = 0
            /\ report.channel_summary = <<>>
      [] op = "dustAnalysis" ->
            /\ report.total_forwards = 0
            /\ report.total_dust_forwards = 0
            /\ report.dust_percentage = 0
            /\ report.total_dust_fee_earned_msat = 0
            /\ report.total_dust_fee_earned_sat = 0
            /\ report.total_normal_fee_earned_msat = 0
            /\ report.total_normal_fee_earned_sat = 0
            /\ report.fee_efficiency_warning = <<>>
            /\ report.suspicious_routes_count = 0
            /\ report.suspicious_inbound_channels = 0
            /\ report.recommendations = <<>>
            /\ report.suspicious_routes = <<>>
            /\ report.suspicious_inbound_details = <<>>
      [] op = "peerScoring" ->
            /\ report.total_peers_scored = 0
            /\ report.peer_scores = <<>>
      [] op = "suggestRebalances" ->
            /\ report.channels_need_outflow = 0
            /\ report.channels_need_inflow = 0
            /\ report.suggested_rebalances = <<>>
            /\ report.sources = <<>>
            /\ report.sinks = <<>>
      [] op = "autoFeeSuggestion" ->
            /\ report.total_channels = 0
            /\ report.suggestions = <<>>
      [] op = "detectDustUtxos" ->
            /\ report.total_utxos = 0
            /\ report.dust_utxos_count = 0
            /\ report.normal_utxos_count = 0
            /\ report.dust_total_sat = 0
            /\ report.normal_total_sat = 0
            /\ report.frozen_results = <<>>
            /\ report.dust_utxos = <<>>

\* The step that ends an item whose input collections are empty, other
\* than by the rejection of the read itself, ends it with a report, and
\* the report is the zero report.
EmptyInputStep ==
    (/\ pc # "done"
     /\ pc' = "done"
     /\ InputEmpty'
     /\ ~ChannelsFetchFails
     /\ ~UtxosFetchFails)
        => /\ Reported'
           /\ ZeroReport(returnData[1].json)'

\* C22: each of the eight analysis operations (balance monitor, HTLC
\* monitor, forwarding summary, dust analysis, peer scoring, rebalance
\* suggestions, fee suggestions, dust UTXO detection), given empty input
\* (no channels, no forwarding events, no UTXOs), completes without error
\* and reports 0 for every count and total and the empty list for every
\* list it holds (frozen_results, which the dust UTXO detection leaves
\* undefined when nothing was frozen, is not in the report).
C22_EmptyInput == [][EmptyInputStep]_vars

\* The dust analysis has reported on no events at all: nothing forwarded,
\* a dust percentage of 0, no recommendations.
C22_Witness ==
    /\ op = "dustAnalysis"
    /\ allEvents = <<>>
    /\ Reported
    /\ returnData[1].json.total_forwards = 0
    /\ returnData[1].json.dust_percentage = 0
    /\ returnData[1].json.recommendations = <<>>


(***************************************************************************)
(* The forwarding summary and the order of the events (specification       *)
(* SpecSummary).                                                           *)
(***************************************************************************)
\* The permutations of 1..n.
Permutations(n) ==
    {p \in [1..n -> 1..n] : \A i, j \in 1..n : p[i] = p[j] => i = j}

\* The events in the order p.
Permuted(events, p) == [k \in 1..Len(events) |-> events[p[k]]]

\* The per-channel values of a summary, without their place in the list.
PerChannel(summary) ==
    {[chan_id |-> summary[k].chan_id,
      forwards_in |-> summary[k].forwards_in,
      forwards_out |-> summary[k].forwards_out,
      fee_earned_msat |-> summary[k].fee_earned_msat,
      amount_routed_in_msat |-> summary[k].amount_routed_in_msat,
      amount_routed_out_msat |-> summary[k].amount_routed_out_msat] :
        k \in 1..Len(summary)}

\* C23: the per-channel values of the forwarding summary (forwards_in,
\* forwards_out, fee earned, amount routed in, amount routed out) and its
\* totals are the same for every permutation of the event sequence: the
\* summary of the events in any other order has the same values for the
\* same channels, and the same totals.
C23_OrderIndependent ==
    Reported =>
        \A p \in Permutations(Len(allEvents)) :
            LET report == returnData[1].json
                other == ForwardingSummaryReport(Permuted(allEvents, p))
            IN  /\ PerChannel(other.channel_summary)
                      = PerChannel(report.channel_summary)
                /\ other.total_events = report.total_events
                /\ other.total_fee_earned_msat = report.total_fee_earned_msat
                /\ other.total_fee_earned_sat = report.total_fee_earned_sat
                /\ other.unique_channels = report.unique_channels

\* Three events on which the order shows: two of them leave through chanB
\* with different fees, and the events in reverse order give the list of
\* channels in another order.
C23_Witness ==
    /\ Reported
    /\ Len(allEvents) = 3
    /\ \E i, j \in 1..3 :
          /\ i # j
          /\ allEvents[i].chan_id_out = "chanB"
          /\ allEvents[j].chan_id_out = "chanB"
          /\ allEvents[i].fee_msat # allEvents[j].fee_msat
    /\ ChannelSummary([k \in 1..3 |-> allEvents[4 - k]])
          # returnData[1].json.channel_summary


(***************************************************************************)
(* The sequencing of the collector's requests (specification SpecCollect). *)
(***************************************************************************)
\* Of the requests issued so far all but possibly the last were answered,
\* and the events held are those of the answers, in order.
AtMostOneOutstanding ==
    /\ Len(recv) <= Len(sent)
    /\ Len(sent) <= Len(recv) + 1
    /\ pc = "await" => Len(sent) = Len(recv) + 1
    /\ allEvents = FlattenPages(recv)

\* A step that issues a request issues one, at a moment when every earlier
\* request has been answered and its events appended.
IssuedAfterPrevious ==
    sent' # sent =>
        /\ Len(sent') = Len(sent) + 1
        /\ Len(recv) = Len(sent)
        /\ allEvents = FlattenPages(recv)
        /\ recv' = recv

\* C24: within one collection at most one page request is outstanding at
\* any time: the request for page N+1 is issued only after the response to
\* page N has been received and its events appended.
C24_SequentialRequests ==
    []AtMostOneOutstanding /\ [][IssuedAfterPrevious]_vars

\* The third request is in flight: the two before it were answered with
\* full pages, whose events are held.
C24_Witness ==
    /\ pc = "await"
    /\ Len(sent) = 3
    /\ Len(recv) = 2
    /\ Len(allEvents) = 2 * pageSize


(***************************************************************************)
(* The order of the forwarding summary's list (specification SpecSummary). *)
(***************************************************************************)
\* The channel ids in the order the aggregation meets them: of each event
\* the inbound one, then the outbound one.
IdsMet(events) ==
    [k \in 1..(2 * Len(events)) |->
        IF k % 2 = 1
           THEN OrUnknown(events[(k + 1) \div 2].chan_id_in)
           ELSE OrUnknown(events[k \div 2].chan_id_out)]

\* The place at which the channel id is first met.
FirstMet(events, id) ==
    CHOOSE k \in 1..(2 * Len(events)) :
        /\ IdsMet(events)[k] = id
        /\ \A j \in 1..(k - 1) : IdsMet(events)[j] # id

\* C25: the per-channel list of the forwarding summary is sorted by fee
\* earned, largest first, and entries that earned the same fee stand in
\* the order in which their channel ids were first met in the event
\* sequence.
C25_SortedByFeeStable ==
    Reported =>
        LET summary == returnData[1].json.channel_summary
        IN  \A i, j \in 1..Len(summary) :
                i < j =>
                    /\ summary[i].fee_earned_msat >= summary[j].fee_earned_msat
                    /\ summary[i].fee_earned_msat = summary[j].fee_earned_msat
                          => FirstMet(allEvents, summary[i].chan_id)
                                < FirstMet(allEvents, summary[j].chan_id)

\* Three channels in the list: the first earned more than the other two,
\* which earned the same fee, and the second was met before the top
\* earner (so the list is not simply in the order of meeting).
C25_Witness ==
    /\ Reported
    /\ Len(returnData[1].json.channel_summary) = 3
    /\ LET summary == returnData[1].json.channel_summary
       IN  /\ summary[1].fee_earned_msat > summary[2].fee_earned_msat
           /\ summary[2].fee_earned_msat = summary[3].fee_earned_msat
           /\ summary[2].fee_earned_msat > 0
           /\ FirstMet(allEvents, summary[2].chan_id)
                 < FirstMet(allEvents, summary[1].chan_id)


(***************************************************************************)
(* Termination of the collector (specification SpecSource).                *)
(***************************************************************************)
\* The loop has exited after a short page.
LoopExited ==
    /\ ~hasMore
    /\ pc # "await"
    /\ recv # <<>>
    /\ PageLen(Len(recv)) < pageSize

FullPageWithoutOffset(k) ==
    /\ PageLen(k) >= pageSize
    /\ recv[k].last_offset_index = <<>>

\* C27: when a full page (at least pageSize events) arrives whose response
\* carries no last_offset_index, the collector neither stops nor keeps
\* its previous offset: the loop goes on with offset 0, and the next
\* request it issues carries offset 0.
C27_MissingOffsetRestartsAtZero ==
    \A k \in 1..Len(recv) :
        FullPageWithoutOffset(k) =>
            /\ k = Len(recv) => (hasMore /\ indexOffset = 0)
            /\ (k = Len(recv) /\ pc = "done") => ~Reported
            /\ k < Len(sent) => sent[k + 1] = 0

\* The second request was made at offset 5; its answer was a full page
\* without last_offset_index, and the third request was made at offset 0.
C27_Witness ==
    /\ Len(sent) = 3
    /\ sent[2] = 5
    /\ FullPageWithoutOffset(2)
    /\ sent[3] = 0


(***************************************************************************)
(* Properties of execute's loop over the items (specification              *)
(* SpecExecute).                                                           *)
(***************************************************************************)
\* The entries pushed so far are those of the items before the one at
\* hand, one each, in the order of the items.
OneEntryPerItemInOrder ==
    /\ Len(returnData) = itemIndex - 1
    /\ \A k \in 1..Len(returnData) : returnData[k].item = k

\* What execute has returned, if it has.
Output == IF pc = "returned" THEN <<returnData>> ELSE <<>>

\* Items are taken one after the other, from the first.
InIndexOrder == itemIndex' \in {itemIndex, itemIndex + 1}

\* With continue-on-fail, the failure of item i appends one error entry
\* for item i, and the loop goes on with item i + 1.
FailureContinues ==
    (ItemRejects /\ continueOnFail) =>
        /\ Len(returnData') = Len(returnData) + 1
        /\ SubSeq(returnData', 1, Len(returnData)) = returnData
        /\ IsError(returnData'[Len(returnData')])
        /\ returnData'[Len(returnData')].item = itemIndex
        /\ itemIndex' = itemIndex + 1
        /\ pc' = "item"

\* Once execute has rejected nothing more happens.
AbortedStays == thrown => UNCHANGED vars

\* C28: execute processes the input items in index order.  With
\* continue-on-fail enabled, a failure while processing item i appends
\* exactly one error entry for item i and processing continues with item
\* i + 1, so the output entries appear in input-item order and every item
\* contributes an entry.  With continue-on-fail disabled, the first
\* failure aborts execute: no output is returned for any item, and later
\* items are not processed.
C28_ItemLoop ==
    /\ [](OneEntryPerItemInOrder
          /\ (pc = "returned" =>
                 /\ ~thrown
                 /\ Len(Output[1]) = items
                 /\ \A k \in 1..items : Output[1][k].item = k)
          /\ (~continueOnFail =>
                 \A k \in 1..Len(returnData) : ~IsError(returnData[k]))
          /\ (thrown =>
                 /\ ~continueOnFail
                 /\ Output = <<>>
                 /\ itemIndex <= items))
    /\ [][InIndexOrder /\ FailureContinues /\ AbortedStays]_vars

\* Three items with continue-on-fail: the second failed, and execute
\* returned the report of the first, the error of the second and the
\* report of the third, in that order.
C28_Witness ==
    /\ pc = "returned"
    /\ continueOnFail
    /\ items = 3
    /\ Len(returnData) = 3
    /\ ~IsError(returnData[1])
    /\ IsError(returnData[2])
    /\ returnData[2].item = 2
    /\ ~IsError(returnData[3])


(***************************************************************************)
(* The recommendations of the dust analysis (specification SpecDust).      *)
(***************************************************************************)
\* The places of the list whose field holds the channel id.
PlacesOf(list, field, id) == {k \in 1..Len(list) : list[k][field] = id}

\* C29: in the dust analysis the inbound channel of every suspicious route
\* is itself listed as a suspicious inbound channel, once, and gets
\* exactly one recommendation.  Hence whenever the alert is the dust
\* attack warning (at least one suspicious route) the list of
\* recommendations is not empty; and there are as many recommendations as
\* suspicious inbound channels, one for each, in their order.
C29_RecommendationPerInbound ==
    Reported =>
        LET report == returnData[1].json
        IN  /\ \A k \in 1..Len(report.suspicious_routes) :
                  LET id == report.suspicious_routes[k].chan_id_in
                  IN  /\ Cardinality(PlacesOf(report.suspicious_inbound_details,
                                              "chan_id_in", id)) = 1
                      /\ Cardinality(PlacesOf(report.recommendations,
                                              "chan_id", id)) = 1
            /\ report.alert.text
                  = "DUST ATTACK WARNING: N route(s) with T+ dust forwards detected"
                  => /\ Len(report.suspicious_routes) >= 1
                     /\ report.recommendations # <<>>
            /\ Len(report.recommendations) = Len(report.suspicious_inbound_details)
            /\ Len(report.recommendations) = report.suspicious_inbound_channels
            /\ \A k \in 1..Len(report.recommendations) :
                  report.recommendations[k].chan_id
                     = report.suspicious_inbound_details[k].chan_id_in

\* The warning was raised for two suspicious routes that come in by the
\* same channel, chanA, which got the one recommendation there is.
C29_Witness ==
    /\ Reported
    /\ returnData[1].json.alert.text
          = "DUST ATTACK WARNING: N route(s) with T+ dust forwards detected"
    /\ Len(returnData[1].json.suspicious_routes) = 2
    /\ returnData[1].json.suspicious_routes[1].chan_id_in = "chanA"
    /\ returnData[1].json.suspicious_routes[2].chan_id_in = "chanA"
    /\ Len(returnData[1].json.recommendations) = 1
    /\ returnData[1].json.recommendations[1].chan_id = "chanA"


(***************************************************************************)
(* The calls that change the node (specification SpecAnalysis).            *)
(***************************************************************************)
\* The calls issued so far that change something on the node: leases of
\* UTXOs and updates of channel policies.  The other calls of the
\* analysis operations (channels, UTXOs, forwarding events) only read.
MutatingCalls == Len(leases) + Len(applied)

\* C30: the analysis operations call a mutating capability only when its
\* opt-in flag is set.  The dust UTXO detection issues no lease when
\* auto-freeze is off or when there is no dust UTXO; the fee suggestion
\* issues no policy update when apply is off; the other operations issue
\* neither.  In those cases the only calls are reads.
C30_MutationsAreOptIn ==
    /\ op = "detectDustUtxos" =>
          /\ applied = <<>>
          /\ (\/ ~params.autoFreezeDust
              \/ \A k \in 1..Len(utxos) :
                    ParseIntOr0(utxos[k].amount_sat) > params.utxoDustThreshold)
                => leases = <<>>
    /\ op = "autoFeeSuggestion" =>
          /\ leases = <<>>
          /\ ~params.applySuggestions => applied = <<>>
    /\ op \notin {"detectDustUtxos", "autoFeeSuggestion"} => MutatingCalls = 0

\* The dust UTXO detection has reported two dust UTXOs with auto-freeze
\* off, and has leased nothing.
C30_Witness ==
    /\ op = "detectDustUtxos"
    /\ Reported
    /\ ~params.autoFreezeDust
    /\ returnData[1].json.dust_utxos_count = 2
    /\ MutatingCalls = 0

=============================================================================
